---- MODULE Spec2Model ----
(***************************************************************************)
(* Point-in-time bar retrieval (khHistory) and custom-period aggregation   *)
(* (khKline) of khQTTools.py, with the trading calendar, the 09:30 anomaly *)
(* correction and the OHLCV aggregation they are built on.                 *)
(*                                                                         *)
(* Time is counted in seconds of local exchange time from 00:00 of         *)
(* 2025-01-01 (day 0, a Wednesday).  The data source stamps its bars in    *)
(* epoch time (UTC), eight hours behind local time.                        *)
(***************************************************************************)
EXTENDS Integers, Sequences, FiniteSets, TLC

VARIABLES
    storeKind,   \* the period family of the series the local store holds: "1d" or "1m"
    store,       \* local store of the data source: symbol -> set of bars
    remote,      \* bars a download_history_data would add: symbol -> set of bars
    srcMode,     \* how get_market_data_ex answers: "full", "sparse" or "raise"
    pc,          \* "idle", "returned" (a call has returned), "again" (it was repeated)
    call,        \* the arguments of the last call
    result,      \* what the last call returned or raised
    first,       \* what the first of two identical calls returned
    grp,         \* input of _aggregate_kline / _process_930_data checked on their own
    out,         \* output of _aggregate_kline / _process_930_data checked on their own
    job,         \* a run of download_and_store_data / supplement_history_data, step by step
    mgr          \* a StockListUpdateManager with its worker process and its queue

vars == <<storeKind, store, remote, srcMode, pc, call, result, first, grp, out, job, mgr>>

\* no download job is run, no manager exists
NoJob == [fn |-> "none"]
NoManager == [state |-> "none"]

----------------------------------------------------------------------------
(* Bounds of the model *)

\* largest bar_count a call is made with
MaxBarCount == 3
\* largest number of bars in a group handed to _aggregate_kline on its own
MaxGroupLen == 3
\* prices of the bars handed to _aggregate_kline and _process_930_data: 1..MaxPrice
MaxPrice == 2

----------------------------------------------------------------------------
(* Clock and calendar arithmetic (datetime, timedelta, pandas .dt) *)

SecondsPerDay == 86400
SecondsPerHour == 3600
SecondsPerMinute == 60
DaysPerYear == 365
\* 2025-01-01 is a Wednesday; datetime.weekday() counts Monday as 0
JanFirstWeekday == 2
\* pd.Timedelta(hours=8) added to the source's epoch time
TzHours == 8

TzShift == TzHours * SecondsPerHour

\* datetime(...) of day d (0 = 2025-01-01) at hh:mm:ss
At(d, hh, mm, ss) == d * SecondsPerDay + hh * SecondsPerHour + mm * SecondsPerMinute + ss

\* .date(), .dt.date and strftime('%Y%m%d'): the calendar day of a datetime
DateOf(t) == t \div SecondsPerDay
\* .dt.hour and .dt.minute
HourOf(t) == (t % SecondsPerDay) \div SecondsPerHour
MinuteOf(t) == (t % SecondsPerHour) \div SecondsPerMinute
\* .year, as the number of years since 2025
YearOf(t) == DateOf(t) \div DaysPerYear
\* datetime(year, 1, 1) and datetime(year, 12, 31)
JanFirst(year) == year * DaysPerYear * SecondsPerDay
DecLast(year) == ((year + 1) * DaysPerYear - 1) * SecondsPerDay
\* datetime.replace(second=0, microsecond=0)
ZeroSeconds(t) == t - (t % SecondsPerMinute)
\* pd.to_datetime(ms, unit='ms') + pd.Timedelta(hours=8)
ToLocal(epoch) == epoch + TzShift

Weekday(d) == (d + JanFirstWeekday) % 7

\* holidays.China(): New Year's Day 2025, Spring Festival 2025 (Jan 28 - Feb 4),
\* New Year's Day 2026
_cn_holidays == {0} \cup (27 .. 34) \cup {DaysPerYear}

\* a check of the weekday alone
WeekdayOnly(d) == Weekday(d) < 5

\* is_trade_day on a well-formed date text: a weekday that is no holiday
is_trade_day(d) == Weekday(d) < 5 /\ d \notin _cn_holidays

RECURSIVE ScanFirstTradeDay(_, _)
ScanFirstTradeDay(current, end) ==
    IF current >= end THEN -1
    ELSE IF is_trade_day(DateOf(current)) THEN current
    ELSE ScanFirstTradeDay(current + SecondsPerDay, end)

\* _get_year_first_trade_day: scans Jan 1 .. Jan 31, falls back to Jan 1
_get_year_first_trade_day(year) ==
    LET found == ScanFirstTradeDay(JanFirst(year), JanFirst(year) + 31 * SecondsPerDay)
    IN  IF found >= 0 THEN found ELSE JanFirst(year)

\* _get_trade_days_list: the trading days from start_date while current <= end_date
_get_trade_days_list(start_date, end_date) ==
    IF start_date > end_date THEN << >>
    ELSE SelectSeq([i \in 1 .. (end_date - start_date) \div SecondsPerDay + 1 |->
                       start_date + (i - 1) * SecondsPerDay],
                   LAMBDA current : is_trade_day(DateOf(current)))

----------------------------------------------------------------------------
(* Sequences and tables (pandas DataFrame: ordered columns, ordered rows) *)

Range(s) == { s[i] : i \in 1 .. Len(s) }

Max2(a, b) == IF a >= b THEN a ELSE b
Min2(a, b) == IF a <= b THEN a ELSE b

\* df[df['time'] < bound]
RowsBefore(rows, bound) ==
    SelectSeq(rows, LAMBDA r : r["time"] < bound)

\* khHistory's strict filter in the place of the inclusive one
RowsUpToExclusive(rows, bound) == RowsBefore(rows, bound)

\* df[df['time'] <= bound]
RowsUpTo(rows, bound) ==
    SelectSeq(rows, LAMBDA r : r["time"] <= bound)

\* df[df['time'].dt.date < day]
RowsDateBefore(rows, day) ==
    SelectSeq(rows, LAMBDA r : DateOf(r["time"]) < day)

\* df[df['time'].dt.date <= day]
RowsDateUpTo(rows, day) ==
    SelectSeq(rows, LAMBDA r : DateOf(r["time"]) <= day)

\* df[df['volume'] > 0]
RowsTraded(rows) ==
    SelectSeq(rows, LAMBDA r : r["volume"] > 0)

\* df.sort_values('time'): ascending by time
sort_values(rows) == SortSeq(rows, LAMBDA a, b : a["time"] < b["time"])

\* df.tail(n)
tail(rows, n) == SubSeq(rows, Len(rows) - n + 1, Len(rows))

\* pd.DataFrame()
EmptyFrame == [cols |-> << >>, rows |-> << >>]

Frame(cols, rows) == [cols |-> cols, rows |-> rows]

\* [col for col in cols if col in have]
RECURSIVE KeepCols(_, _)
KeepCols(cols, have) ==
    IF cols = << >> THEN << >>
    ELSE (IF Head(cols) \in have THEN << Head(cols) >> ELSE << >>)
         \o KeepCols(Tail(cols), have)

\* df[columns]: the columns of the list, in its order
Project(df, columns) ==
    Frame(columns, [i \in 1 .. Len(df.rows) |-> [c \in Range(columns) |-> df.rows[i][c]]])

----------------------------------------------------------------------------
(* The market data source (xtquant.xtdata), an external collaborator:      *)
(* download_history_data refreshes the local store of one stock over a     *)
(* date range, get_market_data_ex reads the bars of a stock list dated     *)
(* within [start_time, end_time], ascending, with the requested columns.   *)

Symbols == {"A", "B"}

\* a bar of the source: its time is epoch time
Bar(t, o, h, l, c, v, a) ==
    [time |-> t - TzShift, open |-> o, high |-> h, low |-> l, close |-> c,
     volume |-> v, amount |-> a]

InRange(bar, start_time, end_time) ==
    /\ start_time <= DateOf(ToLocal(bar.time))
    /\ DateOf(ToLocal(bar.time)) <= end_time

RECURSIVE RowsBetween(_, _, _, _)
\* the bars stamped within lo .. hi as rows in ascending order of time, got by
\* halving the interval
RowsBetween(bars, field_list, lo, hi) ==
    IF bars = {} THEN << >>
    ELSE IF lo = hi \/ Cardinality(bars) = 1
    THEN LET b == CHOOSE x \in bars : \A y \in bars : x.time <= y.time
         IN  << [c \in Range(field_list) |-> b[c]] >>
             \o RowsBetween(bars \ {b}, field_list, lo, hi)
    ELSE LET mid == (lo + hi) \div 2
         IN  RowsBetween({ b \in bars : b.time <= mid }, field_list, lo, mid)
             \o RowsBetween({ b \in bars : b.time > mid }, field_list, mid + 1, hi)

\* the bars of a set as rows in ascending order of time
AscendingRows(bars, field_list) ==
    RowsBetween(bars, field_list, -TzShift, (DaysPerYear + 1) * SecondsPerDay)

\* the series of the store a period reads
SeriesOf(st, stock, period) == IF period = st.kind THEN st.store[stock] ELSE {}

\* xtdata.download_history_data(stock_code, period, start_time, end_time): a failure
\* raises and leaves the store as it is
download_history_data(st, stock, period, start_time, end_time) ==
    IF period = st.kind /\ stock \notin st.dlFail
    THEN [st EXCEPT !.store[stock] =
              @ \cup { b \in st.remote[stock] : InRange(b, start_time, end_time) }]
    ELSE st

RECURSIVE DownloadAll(_, _, _, _, _)
\* for stock_code in stock_codes: try: download_history_data(...) except: log
DownloadAll(st, stock_codes, period, start_time, end_time) ==
    IF stock_codes = << >> THEN st
    ELSE DownloadAll(download_history_data(st, Head(stock_codes), period, start_time, end_time),
                     Tail(stock_codes), period, start_time, end_time)

\* xtdata.get_market_data_ex(field_list, stock_list, period, start_time, end_time, count=-1):
\* raised, or a dict stock -> DataFrame; a stock without bars is either mapped to an
\* empty DataFrame ("full") or left out of the dict ("sparse"); in the mode "notime"
\* the DataFrame of stock A comes without its time column
get_market_data_ex(st, field_list, stock_list, period, start_time, end_time) ==
    LET inRange(s) == { b \in SeriesOf(st, s, period) : InRange(b, start_time, end_time) }
        keys == IF st.mode = "sparse"
                THEN { s \in Range(stock_list) : inRange(s) # {} }
                ELSE Range(stock_list)
        cols(s) == IF st.mode = "notime" /\ s = "A"
                   THEN SelectSeq(field_list, LAMBDA c : c # "time")
                   ELSE field_list
    IN  [raised |-> st.mode = "raise",
         keys   |-> keys,
         frame  |-> [s \in keys |-> Frame(cols(s), AscendingRows(inRange(s), cols(s)))]]

----------------------------------------------------------------------------
(* Time texts.  A text is a date, written compact (YYYYMMDD) or dashed      *)
(* (YYYY-MM-DD), followed or not by a time of day: the digits of           *)
(* HHMMSS / HHMM (compact) or of HH:MM:SS / HH:MM (dashed).                *)

NoTime == [given |-> FALSE, day |-> 0, dashed |-> FALSE, tod |-> << >>]
TimeText(day, dashed, tod) == [given |-> TRUE, day |-> day, dashed |-> dashed, tod |-> tod]

Num(ds) == IF Len(ds) = 1 THEN ds[1] ELSE 10 * ds[1] + ds[2]

\* strptime's %H%M%S on a run of digits: each directive takes two digits when they
\* form a valid value and the rest can still match, else one (the regular
\* expression (2[0-3]|[0-1]\d|\d)([0-5]\d|\d)(6[0-1]|[0-5]\d|\d) with backtracking)
strptime_HMS(ds) ==
    LET n == Len(ds)
        ok(hl, ml, sl) ==
            /\ hl + ml + sl = n
            /\ Num(SubSeq(ds, 1, hl)) <= 23
            /\ Num(SubSeq(ds, hl + 1, hl + ml)) <= 59
            /\ Num(SubSeq(ds, hl + ml + 1, n)) <= 61
        pick(hl, ml, sl) ==
            << Num(SubSeq(ds, 1, hl)), Num(SubSeq(ds, hl + 1, hl + ml)),
               Num(SubSeq(ds, hl + ml + 1, n)) >>
    IN  IF n < 3 \/ n > 6 THEN << >>
        ELSE IF ok(2, 2, 2) THEN pick(2, 2, 2)
        ELSE IF ok(2, 2, 1) THEN pick(2, 2, 1)
        ELSE IF ok(2, 1, 2) THEN pick(2, 1, 2)
        ELSE IF ok(2, 1, 1) THEN pick(2, 1, 1)
        ELSE IF ok(1, 2, 2) THEN pick(1, 2, 2)
        ELSE IF ok(1, 2, 1) THEN pick(1, 2, 1)
        ELSE IF ok(1, 1, 2) THEN pick(1, 1, 2)
        ELSE IF ok(1, 1, 1) THEN pick(1, 1, 1)
        ELSE << >>

\* strptime's %H%M on a run of digits
strptime_HM(ds) ==
    LET n == Len(ds)
        ok(hl, ml) ==
            /\ hl + ml = n
            /\ Num(SubSeq(ds, 1, hl)) <= 23
            /\ Num(SubSeq(ds, hl + 1, n)) <= 59
        pick(hl, ml) == << Num(SubSeq(ds, 1, hl)), Num(SubSeq(ds, hl + 1, n)), 0 >>
    IN  IF n < 2 \/ n > 4 THEN << >>
        ELSE IF ok(2, 2) THEN pick(2, 2)
        ELSE IF ok(2, 1) THEN pick(2, 1)
        ELSE IF ok(1, 2) THEN pick(1, 2)
        ELSE IF ok(1, 1) THEN pick(1, 1)
        ELSE << >>

\* strptime's %H:%M:%S and %H:%M on a dashed text, whose parts are two digits each
strptime_colons(ds, parts) ==
    IF Len(ds) # 2 * parts THEN << >>
    ELSE LET hh == Num(SubSeq(ds, 1, 2))
             mm == Num(SubSeq(ds, 3, 4))
             ss == IF parts = 3 THEN Num(SubSeq(ds, 5, 6)) ELSE 0
         IN  IF hh <= 23 /\ mm <= 59 /\ ss <= 61 THEN << hh, mm, ss >> ELSE << >>

\* the first format of khHistory's time_formats that parses the text:
\* '%Y%m%d %H%M%S', '%Y-%m-%d %H:%M:%S', '%Y%m%d', '%Y-%m-%d'; << >> when none does
HistoryTimeOfDay(text) ==
    IF text.tod = << >> THEN << 0, 0, 0 >>
    ELSE IF text.dashed THEN strptime_colons(text.tod, 3)
    ELSE strptime_HMS(text.tod)

\* khKline's formats, in its order: '%Y-%m-%d %H:%M:%S', '%Y%m%d %H%M%S',
\* '%Y%m%d %H%M', '%Y-%m-%d %H:%M', '%Y%m%d', '%Y-%m-%d'
KlineTimeOfDay(text) ==
    IF text.tod = << >> THEN << 0, 0, 0 >>
    ELSE IF text.dashed
         THEN (IF strptime_colons(text.tod, 3) # << >> THEN strptime_colons(text.tod, 3)
               ELSE strptime_colons(text.tod, 2))
    ELSE IF strptime_HMS(text.tod) # << >> THEN strptime_HMS(text.tod)
    ELSE strptime_HM(text.tod)

----------------------------------------------------------------------------
(* What a call gives back: a dict (keys in insertion order) or a raised    *)
(* ValueError; with it the data source as the call leaves it and the       *)
(* number of requests the call made to it.                                 *)

\* fields=None, and the default khKline gives it
NoFields == << "None" >>
DefaultFields == << "open", "high", "low", "close", "volume" >>

Dict(keys, tab) == [kind |-> "dict", keys |-> keys, tab |-> tab]
EmptyDict == Dict(<< >>, << >>)
ValueError == [kind |-> "ValueError", keys |-> << >>, tab |-> << >>]

\* an exception on its way up to the caller
Raised == [kind |-> "Exception", keys |-> << >>, tab |-> << >>]

Outcome(ret, st, reads) == [ret |-> ret, st |-> st, reads |-> reads]

\* a handler that lets the exception through
Reraised(o) == o

\* except Exception as e: (log) return {}
ExceptReturnsEmpty(o) == IF o.ret = Raised THEN [o EXCEPT !.ret = EmptyDict] ELSE o

\* whether the frame of a stock counts as no data
NoData(data, s) == s \notin data.keys \/ data.frame[s].rows = << >>

\* a stock whose frame has rows and no time column: its processing raises KeyError
NoTimeColumn(data, stocks) ==
    \E s \in Range(stocks) : ~NoData(data, s) /\ "time" \notin Range(data.frame[s].cols)

\* without the copy: the conversion of the time column is written into the frames
\* the source handed out, so the bars that were read are left stamped in local time
StoreWrittenThrough(st, data) ==
    LET read(k) == IF k \in data.keys /\ "time" \in Range(data.frame[k].cols)
                   THEN { data.frame[k].rows[i]["time"] : i \in 1 .. Len(data.frame[k].rows) }
                   ELSE {}
    IN  [st EXCEPT !.store = [k \in DOMAIN @ |->
                                 { IF b.time \in read(k) THEN [b EXCEPT !.time = ToLocal(@)] ELSE b
                                   : b \in @[k] }]]

\* df = data[stock_code].copy(): the frames the source handed out are copied before
\* their time column is rewritten, so the source's own data stay as they were read
StoreAfterCopy(st, data) == st

\* df['time'] = pd.to_datetime(df['time'].astype(float), unit='ms') + pd.Timedelta(hours=8)
LocalTimes(rows) == [i \in 1 .. Len(rows) |-> [rows[i] EXCEPT !["time"] = ToLocal(@)]]

\* a trim that gives nothing when the rows are fewer than asked for
TrimOrNothing(rows, bar_count) == IF Len(rows) < bar_count THEN << >> ELSE tail(rows, bar_count)

\* if len(df) > bar_count: df = df.tail(bar_count)
TrimTo(rows, bar_count) == IF Len(rows) > bar_count THEN tail(rows, bar_count) ELSE rows

----------------------------------------------------------------------------
(* khHistory *)

\* datetime.now(), read when no reference time is given: 2025-01-23 09:32:45
Clock == At(22, 9, 32, 45)

\* lookback_days of khHistory (and target_days of its forced download)
HistoryLookbackDays(period, bar_count) ==
    IF period = "tick" THEN 3
    ELSE IF period \in {"1m", "5m"} THEN Max2(10, (bar_count * 10 + 1439) \div 1440)
    ELSE IF period = "1d" THEN bar_count * 5
    ELSE bar_count * 3

\* HistoryMask with <= in place of <: the window closed at the reference time
HistoryMaskInclusive(rows, period, current_datetime) ==
    IF period \in {"tick", "1m", "5m"}
    THEN RowsUpTo(rows, current_datetime)
    ELSE RowsDateUpTo(rows, DateOf(current_datetime))

\* the rows of one stock that precede the reference time: by exact time for
\* tick and minute periods, by calendar date otherwise
HistoryMask(rows, period, current_datetime) ==
    IF period \in {"tick", "1m", "5m"}
    THEN RowsBefore(rows, current_datetime)
    ELSE RowsDateBefore(rows, DateOf(current_datetime))

\* the body of khHistory's loop for one stock whose DataFrame is not empty;
\* a holds the call's arguments under their names
HistoryFrame(df, a, current_datetime) ==
    LET timed  == IF "time" \in Range(df.cols)
                  THEN sort_values(HistoryMask(LocalTimes(df.rows), a.fre_step, current_datetime))
                  ELSE df.rows
        traded == IF a.skip_paused /\ "volume" \in Range(df.cols)
                  THEN RowsTraded(timed)
                  ELSE timed
        kept   == TrimTo(traded, a.bar_count)
        columns_order == << "time" >> \o KeepCols(a.fields, Range(df.cols))
    IN  Project(Frame(df.cols, kept), columns_order)

\* khHistory after its parameter validation and time parsing: the try block
HistoryBody(st, a, current_datetime) ==
    LET days       == HistoryLookbackDays(a.fre_step, a.bar_count)
        start_time == DateOf(current_datetime - days * SecondsPerDay)
        end_time   == DateOf(current_datetime)
        st1   == IF a.force_download
                 THEN DownloadAll(st, a.symbol_list, a.fre_step, start_time, end_time)
                 ELSE st
        reads == (IF a.force_download THEN Len(a.symbol_list) ELSE 0) + 1
        data  == get_market_data_ex(st1, << "time" >> \o a.fields, a.symbol_list,
                                    a.fre_step, start_time, end_time)
        one(s) == IF s \notin data.keys \/ data.frame[s].rows = << >>
                  THEN EmptyFrame
                  ELSE HistoryFrame(data.frame[s], a, current_datetime)
    IN  IF data.raised THEN Outcome(Raised, st1, reads)
        ELSE IF data.keys = {} THEN Outcome(EmptyDict, st1, reads)
        ELSE IF NoTimeColumn(data, a.symbol_list)
        THEN Outcome(Raised, StoreAfterCopy(st1, data), reads)
        ELSE Outcome(Dict(a.symbol_list, [s \in Range(a.symbol_list) |-> one(s)]), StoreAfterCopy(st1, data), reads)

khHistory(st, a) ==
    IF a.symbol_list = << >> THEN Outcome(ValueError, st, 0)
    ELSE IF a.fields = << >> \/ a.fields = NoFields THEN Outcome(ValueError, st, 0)
    ELSE IF a.bar_count <= 0 THEN Outcome(ValueError, st, 0)
    ELSE IF ~a.current_time.given THEN ExceptReturnsEmpty(HistoryBody(st, a, Clock))
    ELSE LET hms == HistoryTimeOfDay(a.current_time)
         IN  IF hms = << >> THEN Outcome(ValueError, st, 0)
             ELSE ExceptReturnsEmpty(HistoryBody(st, a, At(a.current_time.day, hms[1], hms[2], hms[3])))

----------------------------------------------------------------------------
(* _process_930_data: the 09:30 bar of a day is merged into its 09:31 bar *)

Is930(row) == HourOf(row["time"]) = 9 /\ MinuteOf(row["time"]) = 30
Is931(row) == HourOf(row["time"]) = 9 /\ MinuteOf(row["time"]) = 31

RECURSIVE RowsNot930(_)
\* date_df[~mask_930]
RowsNot930(rows) ==
    IF rows = << >> THEN << >>
    ELSE (IF Is930(Head(rows)) THEN << >> ELSE << Head(rows) >>) \o RowsNot930(Tail(rows))

RECURSIVE RowsOfDate(_, _)
RowsOfDate(rows, day) ==
    IF rows = << >> THEN << >>
    ELSE (IF DateOf(Head(rows)["time"]) = day THEN << Head(rows) >> ELSE << >>)
         \o RowsOfDate(Tail(rows), day)

\* a merge that adds up volume and amount and leaves the open of 09:31
Merge931KeepsOpen(r930, r931, fields) ==
    [c \in DOMAIN r931 |->
        IF c = "volume" /\ "volume" \in Range(fields) THEN r930[c] + r931[c]
        ELSE IF c = "amount" /\ "amount" \in Range(fields) THEN r930[c] + r931[c]
        ELSE r931[c]]

\* the 09:31 row after the merge: open of 09:30, volume and amount added up, each
\* only when the field is requested and is a column
Merge931(r930, r931, fields) ==
    [c \in DOMAIN r931 |->
        IF c = "open" /\ "open" \in Range(fields) THEN r930[c]
        ELSE IF c = "volume" /\ "volume" \in Range(fields) THEN r930[c] + r931[c]
        ELSE IF c = "amount" /\ "amount" \in Range(fields) THEN r930[c] + r931[c]
        ELSE r931[c]]

\* the body of the loop over the days of the DataFrame
Process930Day(date_df, fields) ==
    LET at930 == { i \in 1 .. Len(date_df) : Is930(date_df[i]) }
        at931 == { i \in 1 .. Len(date_df) : Is931(date_df[i]) }
    IN  IF at930 # {} /\ at931 # {}
        THEN LET idx_930 == CHOOSE i \in at930 : \A j \in at930 : i <= j
                 idx_931 == CHOOSE i \in at931 : \A j \in at931 : i <= j
             IN  RowsNot930([date_df EXCEPT ![idx_931] =
                                 Merge931(date_df[idx_930], date_df[idx_931], fields)])
        ELSE date_df

RECURSIVE Process930Days(_, _, _)
\* for date, date_df in df.groupby(df['time'].dt.date): the days in ascending order
Process930Days(rows, days, fields) ==
    IF days = {} THEN << >>
    ELSE LET day == CHOOSE d \in days : \A e \in days : d <= e
         IN  Process930Day(RowsOfDate(rows, day), fields)
             \o Process930Days(rows, days \ {day}, fields)

_process_930_data(df, fields) ==
    IF df.rows = << >> THEN df
    ELSE Frame(df.cols,
               sort_values(Process930Days(df.rows,
                                          { DateOf(df.rows[i]["time"]) : i \in 1 .. Len(df.rows) },
                                          fields)))

----------------------------------------------------------------------------
(* _aggregate_kline: df.groupby(group_col, as_index=False).agg(agg_dict)   *)
(* A group key is a text; it is held as the sequence of its characters'    *)
(* ranks ('-' is 0, the digit k is k + 1), after one number that stands    *)
(* for its fixed-width date or year, so that the order of the keys is the  *)
(* order of the texts.                                                     *)

RECURSIVE Digits(_)
\* the decimal digits of n >= 0
Digits(n) == IF n < 10 THEN << n >> ELSE Digits(n \div 10) \o << n % 10 >>

RECURSIVE ZeroPad(_, _)
ZeroPad(ds, width) == IF Len(ds) >= width THEN ds ELSE ZeroPad(<< 0 >> \o ds, width)

\* f"{x:03d}": zero-padded to three characters, the sign counted in
Format03d(x) ==
    LET rank(ds) == [i \in 1 .. Len(ds) |-> ds[i] + 1]
    IN  IF x >= 0 THEN rank(ZeroPad(Digits(x), 3))
        ELSE << 0 >> \o rank(ZeroPad(Digits(-x), 2))

RECURSIVE TextLess(_, _)
\* a < b for two texts (Python's str comparison)
TextLess(a, b) ==
    IF b = << >> THEN FALSE
    ELSE IF a = << >> THEN TRUE
    ELSE IF Head(a) # Head(b) THEN Head(a) < Head(b)
    ELSE TextLess(Tail(a), Tail(b))

\* the groups in descending order of their keys
KeyAfter(a, b) == TextLess(b, a)

\* groupby sorts the groups by their keys (sort=True is the default)
KeyBefore(a, b) == TextLess(a, b)

RECURSIVE RowsOfGroup(_, _, _)
RowsOfGroup(rows, group_col, key) ==
    IF rows = << >> THEN << >>
    ELSE (IF Head(rows)[group_col] = key THEN << Head(rows) >> ELSE << >>)
         \o RowsOfGroup(Tail(rows), group_col, key)

\* agg_dict's keys, in the order they are put in
AggColumns(fields) ==
    << "time" >> \o KeepCols(<< "open", "high", "low", "close", "volume", "amount" >>,
                             Range(fields))

RECURSIVE SumOf(_, _)
SumOf(rows, c) == IF rows = << >> THEN 0 ELSE Head(rows)[c] + SumOf(Tail(rows), c)

RECURSIVE MaxOf(_, _)
MaxOf(rows, c) ==
    IF Len(rows) = 1 THEN rows[1][c] ELSE Max2(Head(rows)[c], MaxOf(Tail(rows), c))

RECURSIVE MinOf(_, _)
MinOf(rows, c) ==
    IF Len(rows) = 1 THEN rows[1][c] ELSE Min2(Head(rows)[c], MinOf(Tail(rows), c))

\* every column aggregated with 'last'
AggValueLast(c, rows) == rows[Len(rows)][c]

\* one aggregated value: 'last', 'first', 'max', 'min', 'last', 'sum', 'sum'
AggValue(c, rows) ==
    IF c = "time" THEN rows[Len(rows)][c]
    ELSE IF c = "open" THEN rows[1][c]
    ELSE IF c = "high" THEN MaxOf(rows, c)
    ELSE IF c = "low" THEN MinOf(rows, c)
    ELSE IF c = "close" THEN rows[Len(rows)][c]
    ELSE SumOf(rows, c)

\* the row of one group: the group column, then the aggregated columns
AggRow(rows, group_col, key, fields) ==
    [c \in {group_col} \cup Range(AggColumns(fields)) |->
        IF c = group_col THEN key ELSE AggValue(c, RowsOfGroup(rows, group_col, key))]

RECURSIVE AggGroups(_, _, _, _)
\* the groups in ascending order of their keys
AggGroups(rows, group_col, keys, fields) ==
    IF keys = {} THEN << >>
    ELSE LET key == CHOOSE k \in keys : \A l \in keys : ~KeyBefore(l, k)
         IN  << AggRow(rows, group_col, key, fields) >>
             \o AggGroups(rows, group_col, keys \ {key}, fields)

_aggregate_kline(df, group_col, fields) ==
    Frame(<< group_col >> \o AggColumns(fields),
          AggGroups(df.rows, group_col,
                    { df.rows[i][group_col] : i \in 1 .. Len(df.rows) }, fields))

\* agg_df.drop(columns=[col])
DropColumn(df, col) ==
    LET cols == SelectSeq(df.cols, LAMBDA c : c # col)
    IN  Project(df, cols)

----------------------------------------------------------------------------
(* khKline: the minute, hour and day routes *)

\* the afternoon offset: minutes_since_931 -= 90 for hour >= 13
LunchBreakMinutes == 90
\* native_periods = [1, 5]
NativeMinutePeriods == {1, 5}

\* lookback_days of the minute and hour routes
MinuteLookbackDays(bar_count, period_minutes) ==
    Max2(10, (bar_count * period_minutes + 1439) \div 1440)

\* minutes counted from 09:31 with the lunch break left in
minutes_with_lunch(t) == (HourOf(t) - 9) * 60 + MinuteOf(t) - 31

\* (hour - 9) * 60 + minute - 31, less the lunch break from 13:00 on
minutes_since_931(t) ==
    (HourOf(t) - 9) * 60 + MinuteOf(t) - 31 - (IF HourOf(t) >= 13 THEN LunchBreakMinutes ELSE 0)

\* df['date'].astype(str) + '_' + f"{minutes_since_931 // period_minutes:03d}"
MinuteGroupId(t, period_minutes) ==
    << DateOf(t) >> \o Format03d(minutes_since_931(t) \div period_minutes)

\* df['group_id'] = ...: the rows with their group key
WithGroupId(rows, cols, period_minutes) ==
    [i \in 1 .. Len(rows) |->
        [c \in Range(cols) \cup {"group_id"} |->
            IF c = "group_id" THEN MinuteGroupId(rows[i]["time"], period_minutes)
            ELSE rows[i][c]]]

\* the loop body of the native routes (1m, 5m, 1d) for a stock with data;
\* byDate is set on the day route, which compares calendar dates
NativeFrame(df, a, target_datetime, byDate) ==
    LET timed == LocalTimes(df.rows)
        upTo  == IF byDate THEN RowsDateUpTo(timed, DateOf(target_datetime))
                 ELSE RowsUpTo(timed, target_datetime)
    IN  Frame(df.cols, TrimTo(sort_values(upTo), a.bar_count))

\* the loop body of the aggregating minute and hour routes for a stock with data
\* (period_minutes > 0)
BucketFrame(df, a, target_datetime, period_minutes) ==
    LET upTo == RowsUpTo(LocalTimes(df.rows), target_datetime)
    IN  IF upTo = << >> THEN EmptyFrame
        ELSE LET fixed  == _process_930_data(Frame(df.cols, sort_values(upTo)), a.fields)
                 keyed  == WithGroupId(fixed.rows, df.cols, period_minutes)
                 agg_df == DropColumn(_aggregate_kline(Frame(df.cols \o << "group_id" >>, keyed),
                                                       "group_id", a.fields),
                                      "group_id")
             IN  Frame(agg_df.cols, TrimTo(agg_df.rows, a.bar_count))

\* the part the minute and hour routes share: download, read, loop over the stocks;
\* aggregate is FALSE on the native minute periods
MinuteRoute(st, a, target_datetime, period_minutes, aggregate) ==
    LET period_str == IF aggregate THEN "1m" ELSE IF period_minutes = 1 THEN "1m" ELSE "5m"
        days       == MinuteLookbackDays(a.bar_count, period_minutes)
        start_time == DateOf(target_datetime - days * SecondsPerDay)
        end_time   == DateOf(target_datetime)
        st1   == IF a.force_download
                 THEN DownloadAll(st, a.symbol_list, period_str, start_time, end_time)
                 ELSE st
        reads == (IF a.force_download THEN Len(a.symbol_list) ELSE 0) + 1
        data  == get_market_data_ex(st1, << "time" >> \o a.fields, a.symbol_list,
                                    period_str, start_time, end_time)
        \* with period 0m or 0h the quotient by zero is no integer and the group text
        \* cannot be formatted: this raises at the first stock with bars up to the
        \* target time
        divZero == /\ aggregate /\ period_minutes = 0
                   /\ \E s \in Range(a.symbol_list) :
                         /\ ~NoData(data, s) /\ "time" \in Range(data.frame[s].cols)
                         /\ RowsUpTo(LocalTimes(data.frame[s].rows), target_datetime) # << >>
        one(s) == IF NoData(data, s) THEN EmptyFrame
                  ELSE IF aggregate
                       THEN BucketFrame(data.frame[s], a, target_datetime, period_minutes)
                       ELSE NativeFrame(data.frame[s], a, target_datetime, FALSE)
    IN  IF data.raised THEN Outcome(Raised, st1, reads)
        ELSE IF data.keys = {} THEN Outcome(EmptyDict, st1, reads)
        ELSE IF NoTimeColumn(data, a.symbol_list) \/ divZero
        THEN Outcome(Raised, StoreAfterCopy(st1, data), reads)
        ELSE Outcome(Dict(a.symbol_list, [s \in Range(a.symbol_list) |-> one(s)]), StoreAfterCopy(st1, data), reads)

_get_minute_kline(st, a, period_minutes, target_datetime) ==
    MinuteRoute(st, a, target_datetime, period_minutes,
                period_minutes \notin NativeMinutePeriods)

_get_hour_kline(st, a, period_hours, target_datetime) ==
    MinuteRoute(st, a, target_datetime, period_hours * 60, TRUE)

\* the 1d route
DayRouteNative(st, a, target_datetime) ==
    LET start_time == DateOf(target_datetime - a.bar_count * 5 * SecondsPerDay)
        end_time   == DateOf(target_datetime)
        st1   == IF a.force_download
                 THEN DownloadAll(st, a.symbol_list, "1d", start_time, end_time)
                 ELSE st
        reads == (IF a.force_download THEN Len(a.symbol_list) ELSE 0) + 1
        data  == get_market_data_ex(st1, << "time" >> \o a.fields, a.symbol_list,
                                    "1d", start_time, end_time)
        one(s) == IF NoData(data, s) THEN EmptyFrame
                  ELSE NativeFrame(data.frame[s], a, target_datetime, TRUE)
    IN  IF data.raised THEN Outcome(Raised, st1, reads)
        ELSE IF data.keys = {} THEN Outcome(EmptyDict, st1, reads)
        ELSE IF NoTimeColumn(data, a.symbol_list)
        THEN Outcome(Raised, StoreAfterCopy(st1, data), reads)
        ELSE Outcome(Dict(a.symbol_list, [s \in Range(a.symbol_list) |-> one(s)]), StoreAfterCopy(st1, data), reads)

\* trade_day_to_index[trade_date], or -1 when the date is not in the list
TradeIndex(trade_days_list, day) ==
    LET at == { i \in 1 .. Len(trade_days_list) : DateOf(trade_days_list[i]) = day }
    IN  IF at = {} THEN -1 ELSE (CHOOSE i \in at : TRUE) - 1

\* get_group_id: f"{target_year}_{trade_index // period_days:03d}"
DayGroupId(trade_index, period_days, target_year) ==
    << target_year >> \o Format03d(trade_index \div period_days)

RECURSIVE RowsInCalendar(_, _)
\* df[df['group_id'].notna()]: the rows whose date is in the trading-day list
RowsInCalendar(rows, trade_days_list) ==
    IF rows = << >> THEN << >>
    ELSE (IF TradeIndex(trade_days_list, DateOf(Head(rows)["time"])) >= 0
          THEN << Head(rows) >> ELSE << >>)
         \o RowsInCalendar(Tail(rows), trade_days_list)

\* df['group_id'] = df.apply(get_group_id, axis=1) on the rows of the calendar
WithDayGroupId(valid, cols, period_days, target_year, trade_days_list) ==
    [i \in 1 .. Len(valid) |->
        [c \in Range(cols) \cup {"group_id"} |->
            IF c = "group_id"
            THEN DayGroupId(TradeIndex(trade_days_list, DateOf(valid[i]["time"])),
                            period_days, target_year)
            ELSE valid[i][c]]]

\* the year of the target time, whatever its first trading day is
CalendarYear(target_datetime) == YearOf(target_datetime)

\* the year before that of the target time, whatever its first trading day is
PreviousYear(target_datetime) == YearOf(target_datetime) - 1

\* target_year: the year before when the target time precedes the first trading
\* day of its year
AnchorYear(target_datetime) ==
    IF target_datetime < _get_year_first_trade_day(YearOf(target_datetime))
    THEN YearOf(target_datetime) - 1
    ELSE YearOf(target_datetime)

\* trade_days_list: the trading days of the target year up to the target time
AnchorCalendar(target_datetime) ==
    LET target_year == AnchorYear(target_datetime)
    IN  _get_trade_days_list(_get_year_first_trade_day(target_year),
                             Min2(target_datetime, DecLast(target_year)))

\* the loop body of the multi-day route for a stock with data (period_days > 0)
YearAlignedFrame(df, a, target_datetime, period_days, target_year, trade_days_list) ==
    LET upTo  == RowsDateUpTo(LocalTimes(df.rows), DateOf(target_datetime))
        valid == RowsInCalendar(sort_values(upTo), trade_days_list)
        keyed == WithDayGroupId(valid, df.cols, period_days, target_year, trade_days_list)
        agg_df == _aggregate_kline(Frame(df.cols \o << "group_id" >>, keyed),
                                   "group_id", a.fields)
    IN  IF valid = << >> THEN EmptyFrame
        ELSE Frame(agg_df.cols, TrimTo(agg_df.rows, a.bar_count))

\* the multi-day route: groups aligned on the first trading day of the year
DayRouteAligned(st, a, period_days, target_datetime) ==
    LET target_year    == AnchorYear(target_datetime)
        year_first_day == _get_year_first_trade_day(target_year)
        lookback_days  == a.bar_count * period_days * 5
        start_dt   == Max2(year_first_day, target_datetime - lookback_days * SecondsPerDay)
        start_time == DateOf(start_dt)
        end_time   == DateOf(target_datetime)
        st1   == IF a.force_download
                 THEN DownloadAll(st, a.symbol_list, "1d", start_time, end_time)
                 ELSE st
        reads == (IF a.force_download THEN Len(a.symbol_list) ELSE 0) + 1
        data  == get_market_data_ex(st1, << "time" >> \o a.fields, a.symbol_list,
                                    "1d", start_time, end_time)
        trade_days_list == AnchorCalendar(target_datetime)
        \* a division by zero (period 0d) raises at the first stock with a bar of a trading day
        divZero == /\ period_days = 0
                   /\ \E s \in Range(a.symbol_list) :
                         /\ ~NoData(data, s) /\ "time" \in Range(data.frame[s].cols)
                         /\ RowsInCalendar(RowsDateUpTo(LocalTimes(data.frame[s].rows),
                                                        DateOf(target_datetime)),
                                           trade_days_list) # << >>
        one(s) == IF NoData(data, s) THEN EmptyFrame
                  ELSE YearAlignedFrame(data.frame[s], a, target_datetime, period_days,
                                        target_year, trade_days_list)
    IN  IF data.raised THEN Outcome(Raised, st1, reads)
        ELSE IF data.keys = {} \/ trade_days_list = << >> THEN Outcome(EmptyDict, st1, reads)
        ELSE IF NoTimeColumn(data, a.symbol_list) \/ divZero
        THEN Outcome(Raised, StoreAfterCopy(st1, data), reads)
        ELSE Outcome(Dict(a.symbol_list, [s \in Range(a.symbol_list) |-> one(s)]), StoreAfterCopy(st1, data), reads)

_get_day_kline(st, a, period_days, target_datetime) ==
    IF period_days = 1 THEN DayRouteNative(st, a, target_datetime)
    ELSE DayRouteAligned(st, a, period_days, target_datetime)

----------------------------------------------------------------------------
(* khKline *)

\* a period text is the sequence of its characters
LowerChar(ch) ==
    IF ch = "M" THEN "m" ELSE IF ch = "H" THEN "h" ELSE IF ch = "D" THEN "d"
    ELSE IF ch = "X" THEN "x" ELSE ch

DigitChars == << "0", "1", "2", "3", "4", "5", "6", "7", "8", "9" >>

DigitValue(ch) == (CHOOSE i \in 1 .. 10 : DigitChars[i] = ch) - 1

RECURSIVE IntOf(_)
\* int(text) of a run of digit characters
IntOf(chars) ==
    IF chars = << >> THEN 0
    ELSE 10 * IntOf(SubSeq(chars, 1, Len(chars) - 1)) + DigitValue(chars[Len(chars)])

\* re.match(r'^(\d+)([mhd])$', period.lower()); '$' matches at the end of the text
\* and also just before a line break that ends it
PeriodMatch(period) ==
    LET low  == [i \in 1 .. Len(period) |-> LowerChar(period[i])]
        body == IF Len(low) >= 1 /\ low[Len(low)] = "\n"
                THEN SubSeq(low, 1, Len(low) - 1) ELSE low
        n    == Len(body)
    IN  IF /\ n >= 2
           /\ body[n] \in {"m", "h", "d"}
           /\ \A i \in 1 .. n - 1 : body[i] \in Range(DigitChars)
        THEN [matched |-> TRUE, num |-> IntOf(SubSeq(body, 1, n - 1)), unit |-> body[n]]
        ELSE [matched |-> FALSE, num |-> 0, unit |-> ""]

\* khKline's try block: the route of the period unit
KlineBody(st, a, period_num, period_unit, target_datetime) ==
    IF period_unit = "m" THEN _get_minute_kline(st, a, period_num, target_datetime)
    ELSE IF period_unit = "h" THEN _get_hour_kline(st, a, period_num, target_datetime)
    ELSE _get_day_kline(st, a, period_num, target_datetime)

\* khKline after fields has got its default
KlineChecked(st, a) ==
    IF a.symbol_list = << >> THEN Outcome(ValueError, st, 0)
    ELSE IF a.period = << >> THEN Outcome(ValueError, st, 0)
    ELSE IF a.bar_count <= 0 THEN Outcome(ValueError, st, 0)
    ELSE IF ~PeriodMatch(a.period).matched THEN Outcome(ValueError, st, 0)
    ELSE LET m == PeriodMatch(a.period)
         IN  IF ~a.end_time.given THEN ExceptReturnsEmpty(KlineBody(st, a, m.num, m.unit, Clock))
             ELSE LET hms == KlineTimeOfDay(a.end_time)
                  IN  IF hms = << >> THEN Outcome(ValueError, st, 0)
                      ELSE ExceptReturnsEmpty(KlineBody(st, a, m.num, m.unit,
                                     ZeroSeconds(At(a.end_time.day, hms[1], hms[2], hms[3]))))

khKline(st, a) ==
    KlineChecked(st, IF a.fields = NoFields THEN [a EXCEPT !.fields = DefaultFields] ELSE a)

----------------------------------------------------------------------------
(* The bars the data source may hold, and the calls made *)

\* daily bars of A: Jan 2, Jan 3, Jan 22 (suspended, no volume) and Jan 23 2025
DayBarsA ==
    { Bar(At(1, 0, 0, 0), 10, 12, 9, 11, 100, 1),
      Bar(At(2, 0, 0, 0), 11, 13, 10, 12, 200, 2),
      Bar(At(21, 0, 0, 0), 12, 12, 12, 12, 0, 0) }
LateDayBarA == Bar(At(22, 0, 0, 0), 12, 14, 11, 13, 400, 8)
\* daily bars of B: Jan 2 and Jan 3 2025
DayBarsB ==
    { Bar(At(1, 0, 0, 0), 20, 22, 19, 21, 300, 16),
      Bar(At(2, 0, 0, 0), 21, 23, 20, 22, 500, 32) }

\* 1-minute bars of A on Jan 23 2025: 09:30 (the opening bar), 09:31, 09:32, 13:01
MinuteBarsA ==
    { Bar(At(22, 9, 30, 0), 30, 30, 30, 30, 500, 64),
      Bar(At(22, 9, 31, 0), 20, 22, 19, 21, 300, 128),
      Bar(At(22, 9, 32, 0), 21, 23, 20, 22, 100, 256) }
LateMinuteBarA == Bar(At(22, 13, 1, 0), 23, 25, 22, 24, 700, 1024)
MinuteBarsB == { Bar(At(22, 9, 31, 0), 40, 41, 39, 40, 900, 2048) }

\* 5-minute bars of A on Jan 23 2025
FiveMinuteBarsA == { Bar(At(22, 9, 35, 0), 20, 23, 19, 22, 600, 4096) }
LateFiveMinuteBarA == Bar(At(22, 9, 40, 0), 22, 24, 21, 23, 800, 8192)

Kinds == {"1d", "1m", "5m"}

BarsA(kind) ==
    IF kind = "1d" THEN DayBarsA ELSE IF kind = "1m" THEN MinuteBarsA ELSE FiveMinuteBarsA
LateBarA(kind) ==
    IF kind = "1d" THEN LateDayBarA
    ELSE IF kind = "1m" THEN LateMinuteBarA ELSE LateFiveMinuteBarA
BarsB(kind) ==
    IF kind = "1d" THEN DayBarsB ELSE IF kind = "1m" THEN MinuteBarsB ELSE {}

SymbolLists == { << "A" >>, << "B", "A" >> }
FieldLists == { << "open", "high", "low", "close", "volume", "amount" >>, << "volume", "close" >> }

\* reference times: '20250103', '2025-01-23' and none for the daily series;
\* '20250123 093000', '2025-01-23 09:32:00', '20250123 1500' and none for the others
RefTimes(kind) ==
    IF kind = "1d"
    THEN { TimeText(2, FALSE, << >>), TimeText(22, TRUE, << >>), NoTime }
    ELSE { TimeText(22, FALSE, << 0, 9, 3, 0, 0, 0 >>),
           TimeText(22, TRUE, << 0, 9, 3, 2, 0, 0 >>),
           TimeText(22, FALSE, << 1, 5, 0, 0 >>),
           NoTime }

HistoryArgs(kind) ==
    [symbol_list : SymbolLists, fields : FieldLists, bar_count : 1 .. MaxBarCount,
     fre_step : {kind}, current_time : RefTimes(kind), skip_paused : BOOLEAN,
     force_download : BOOLEAN]

\* one call of khHistory, and the calls that differ from it in one argument that
\* does not pass the validation: no symbol, no field, fields=None, a bar_count of 0
\* or -1, a time text '2025-01-23 09:32'
HistoryBase(kind) ==
    [symbol_list |-> << "A" >>, fields |-> << "volume", "close" >>, bar_count |-> 1,
     fre_step |-> kind, current_time |-> TimeText(22, TRUE, << >>),
     skip_paused |-> FALSE, force_download |-> TRUE]

HistoryOdd(kind) ==
    { [HistoryBase(kind) EXCEPT !.symbol_list = << >>],
      [HistoryBase(kind) EXCEPT !.fields = << >>],
      [HistoryBase(kind) EXCEPT !.fields = NoFields],
      [HistoryBase(kind) EXCEPT !.bar_count = 0],
      [HistoryBase(kind) EXCEPT !.bar_count = -1],
      [HistoryBase(kind) EXCEPT !.current_time = TimeText(22, TRUE, << 0, 9, 3, 2 >>)] }

\* the period texts of the calls that pass: 1d 2d 3d, 1m 2m 1h, 5m
Periods(kind) ==
    IF kind = "1d" THEN { << "1", "d" >>, << "2", "d" >>, << "3", "d" >> }
    ELSE IF kind = "1m" THEN { << "1", "m" >>, << "2", "m" >>, << "1", "h" >> }
    ELSE { << "5", "m" >> }

\* period texts tried besides: '3x', 'm5', '', '5m' with a line break, '5M', '15', 'd',
\* '0m', '0h', '0d'
OddPeriods ==
    { << "3", "x" >>, << "m", "5" >>, << >>, << "5", "m", "\n" >>, << "5", "M" >>,
      << "1", "5" >>, << "d" >>, << "0", "m" >>, << "0", "h" >>, << "0", "d" >> }

\* calls of khHistory that skip suspended bars and do not ask for the volume
HistoryUnvolumed(kind) ==
    { [HistoryBase(kind) EXCEPT !.fields = << "open", "close" >>, !.skip_paused = TRUE,
                                !.bar_count = n] : n \in 1 .. MaxBarCount }

KlineArgs(kind) ==
    [symbol_list : SymbolLists, period : Periods(kind), bar_count : 1 .. MaxBarCount,
     fields : FieldLists, end_time : RefTimes(kind), force_download : BOOLEAN]

KlineBase(kind) ==
    [symbol_list |-> << "A" >>, period |-> CHOOSE p \in Periods(kind) : p[1] \in {"1", "5"},
     bar_count |-> 1, fields |-> << "volume", "close" >>,
     end_time |-> TimeText(22, TRUE, << >>), force_download |-> TRUE]

\* calls of khKline whose end_time is written '20250123 0932'
KlineShortTimes(kind) ==
    { [KlineBase(kind) EXCEPT !.end_time = TimeText(22, FALSE, << 0, 9, 3, 2 >>),
                              !.bar_count = n] : n \in 1 .. MaxBarCount }

KlineOdd(kind) ==
    { [KlineBase(kind) EXCEPT !.period = p] : p \in OddPeriods }
    \cup { [KlineBase(kind) EXCEPT !.symbol_list = << >>],
           [KlineBase(kind) EXCEPT !.fields = << >>],
           [KlineBase(kind) EXCEPT !.fields = NoFields],
           [KlineBase(kind) EXCEPT !.bar_count = 0],
           [KlineBase(kind) EXCEPT !.bar_count = -1],
           [KlineBase(kind) EXCEPT !.end_time = TimeText(22, TRUE, << 0, 9 >>)] }

----------------------------------------------------------------------------
(* The state machine: the data source holds some bars; a call is made and  *)
(* returns; the same call is made once more.                               *)

NoTable == [rows |-> << >>, fields |-> << >>]
NoCall == [fn |-> "none", a |-> << >>, dlFail |-> {}]
NoResult == [ret |-> EmptyDict, reads |-> 0]

\* the data source as a call finds it; dlFail are the stocks whose download fails
Source(dlFail) ==
    [kind |-> storeKind, store |-> store, remote |-> remote, mode |-> srcMode,
     dlFail |-> dlFail]

Invoke(c) ==
    IF c.fn = "khHistory" THEN khHistory(Source(c.dlFail), c.a)
    ELSE khKline(Source(c.dlFail), c.a)

\* the downloads that may fail: those that would bring something
DownloadFailures(a) ==
    IF a.force_download /\ remote["A"] # {} /\ "A" \in Range(a.symbol_list)
    THEN { {}, {"A"} } ELSE { {} }

Init ==
    /\ storeKind \in Kinds
    /\ srcMode \in {"full", "sparse", "raise", "notime"}
    /\ \E sa \in SUBSET BarsA(storeKind), sb \in {{}, BarsB(storeKind)},
          late \in {"absent", "local", "remote"} :
          /\ srcMode \in {"sparse", "raise"}
                => sa \in {{}, BarsA(storeKind)} /\ sb = {} /\ late = "absent"
          /\ srcMode = "notime"
                => sa = BarsA(storeKind) /\ sb = BarsB(storeKind) /\ late = "absent"
          /\ store = [s \in Symbols |->
                        IF s = "A"
                        THEN sa \cup (IF late = "local" THEN {LateBarA(storeKind)} ELSE {})
                        ELSE sb]
          /\ remote = [s \in Symbols |->
                         IF s = "A" /\ late = "remote" THEN {LateBarA(storeKind)} ELSE {}]
    /\ pc = "idle"
    /\ call = NoCall
    /\ result = NoResult
    /\ first = NoResult
    /\ grp = NoTable
    /\ out = EmptyFrame
    /\ job = NoJob
    /\ mgr = NoManager

Returns(c) ==
    LET o == Invoke(c)
    IN  /\ call' = c
        /\ result' = [ret |-> o.ret, reads |-> o.reads]
        /\ store' = o.st.store
        /\ UNCHANGED << storeKind, remote, srcMode, grp, out, job, mgr >>

CallKhHistory ==
    /\ pc = "idle"
    /\ \E a \in HistoryArgs(storeKind) \cup HistoryOdd(storeKind)
                    \cup HistoryUnvolumed(storeKind) :
          \E fails \in DownloadFailures(a) :
             Returns([fn |-> "khHistory", a |-> a, dlFail |-> fails])
    /\ pc' = "returned"
    /\ UNCHANGED first

CallKhKline ==
    /\ pc = "idle"
    /\ \E a \in KlineArgs(storeKind) \cup KlineOdd(storeKind)
                    \cup KlineShortTimes(storeKind) :
          \E fails \in DownloadFailures(a) :
             Returns([fn |-> "khKline", a |-> a, dlFail |-> fails])
    /\ pc' = "returned"
    /\ UNCHANGED first

\* the call that has just returned is made again, with the same arguments
CallAgain ==
    /\ pc = "returned"
    /\ Returns(call)
    /\ first' = result
    /\ pc' = "again"

Next == CallKhHistory \/ CallKhKline \/ CallAgain

Spec == Init /\ [][Next]_vars

AllColumns == << "time", "open", "high", "low", "close", "volume", "amount" >>

----------------------------------------------------------------------------
(* _aggregate_kline and _process_930_data on their own: a table is drawn,  *)
(* the function is applied to it.                                          *)

\* the group of the specification's example: (o=10,h=12,l=9,c=11,v=100), (o=11,h=13,l=10,c=12,v=200)
ExampleGroup ==
    << [time |-> At(22, 9, 31, 0), open |-> 10, high |-> 12, low |-> 9, close |-> 11,
        volume |-> 100, amount |-> 1000, preClose |-> 9, group_id |-> << 22, 1, 1, 1 >>],
       [time |-> At(22, 9, 32, 0), open |-> 11, high |-> 13, low |-> 10, close |-> 12,
        volume |-> 200, amount |-> 2400, preClose |-> 11, group_id |-> << 22, 1, 1, 1 >>] >>

\* n bars a minute apart, bar i opening at oc[i][1] and closing at oc[i][2]; the
\* first k of them in group 000, the others in group 001
GroupedBars(n, oc, k) ==
    [i \in 1 .. n |->
        [time |-> At(22, 9, 30 + i, 0), open |-> oc[i][1],
         high |-> Max2(oc[i][1], oc[i][2]) + (i % 2), low |-> Min2(oc[i][1], oc[i][2]),
         close |-> oc[i][2], volume |-> 100 * oc[i][1] + i, amount |-> 1000 * oc[i][2] + i,
         preClose |-> oc[i][1] + i,
         group_id |-> << 22, 1, 1, IF i <= k THEN 1 ELSE 2 >>]]

\* the open and close prices of n bars, up to MaxPrice
AggregateInputs(n) == [1 .. n -> (1 .. MaxPrice) \X (1 .. MaxPrice)]

\* what the variables of the calls hold while a function is applied on its own
NoCalls ==
    /\ storeKind = "1m"
    /\ srcMode = "full"
    /\ store = [s \in Symbols |-> {}]
    /\ remote = [s \in Symbols |-> {}]
    /\ call = NoCall
    /\ result = NoResult
    /\ first = NoResult
    /\ job = NoJob
    /\ mgr = NoManager

\* the field lists _aggregate_kline is given: those of the calls, and one that
\* names preClose, a field outside its rule table
AggregateFields == FieldLists \cup { << "close", "preClose" >> }

InitAggregate ==
    /\ NoCalls
    /\ pc = "idle"
    /\ \E fields \in AggregateFields :
          \/ grp = [rows |-> ExampleGroup, fields |-> fields]
          \/ \E n \in 1 .. MaxGroupLen :
                \E oc \in AggregateInputs(n), k \in 0 .. n - 1 :
                   grp = [rows |-> GroupedBars(n, oc, k), fields |-> fields]
    /\ out = EmptyFrame

Aggregate ==
    /\ pc = "idle"
    /\ out' = _aggregate_kline(Frame(AllColumns \o << "preClose", "group_id" >>, grp.rows),
                               "group_id", grp.fields)
    /\ pc' = "returned"
    /\ UNCHANGED << storeKind, store, remote, srcMode, call, result, first, grp, job, mgr >>

NextAggregate == Aggregate

SpecAggregate == InitAggregate /\ [][NextAggregate]_vars

\* a bar of the morning of day d at 09:m; the bar of 09:30 has one price p and the
\* volume 500 of the specification's example, the bar of 09:31 its open 20 and volume 300
MorningBar(d, m, p) ==
    IF m = 30
    THEN [time |-> At(d, 9, 30, 0), open |-> 30 + p, high |-> 30 + p, low |-> 30 + p,
          close |-> 30 + p, volume |-> 500 + 1000 * (22 - d), amount |-> 5000 + d]
    ELSE [time |-> At(d, 9, m, 0), open |-> m - 11, high |-> m - 9, low |-> m - 12,
          close |-> m - 10, volume |-> 300 - 200 * (m - 31) + 1000 * (22 - d),
          amount |-> 3000 + 10 * m + d]

MorningMinutes == {30, 31, 32}

\* the minute series of two days, Jan 22 and Jan 23, ascending
MorningSeries(m21, m22, p) ==
    AscendingRows({ MorningBar(21, m, p) : m \in m21 } \cup { MorningBar(22, m, p) : m \in m22 },
                  AllColumns)

\* the field lists _process_930_data is given
CorrectorFields == FieldLists \cup { << "open", "close" >> }

Init930 ==
    /\ NoCalls
    /\ pc = "idle"
    /\ \E m21 \in SUBSET MorningMinutes, m22 \in SUBSET MorningMinutes, p \in 1 .. MaxPrice,
          fields \in CorrectorFields :
          grp = [rows |-> Project(Frame(AllColumns, MorningSeries(m21, m22, p)),
                                  << "time" >> \o fields).rows,
                 fields |-> fields]
    /\ out = EmptyFrame

Correct930 ==
    /\ pc = "idle"
    /\ out' = _process_930_data(Frame(<< "time" >> \o grp.fields, grp.rows), grp.fields)
    /\ pc' = "returned"
    /\ UNCHANGED << storeKind, store, remote, srcMode, call, result, first, grp, job, mgr >>

Next930 == Correct930

Spec930 == Init930 /\ [][Next930]_vars

----------------------------------------------------------------------------
(* The buckets of the minute and hour routes: the minute bars of one day   *)
(* are corrected and given their group keys.                               *)

\* the minutes of the session tried: 09:30 09:31 09:32, 10:30 10:31, 11:30,
\* 13:01 13:02, 15:00
SessionMinutes ==
    { << 9, 30 >>, << 9, 31 >>, << 9, 32 >>, << 10, 30 >>, << 10, 31 >>, << 11, 30 >>,
      << 13, 1 >>, << 13, 2 >>, << 15, 0 >> }

\* the bucket sizes in minutes: 2m, 3m, 1h, 2h
BucketSizes == {2, 3, 60, 120}

\* the minute series of Jan 23 made of the given minutes, ascending
SessionSeries(ms) ==
    AscendingRows({ [time |-> At(22, hm[1], hm[2], 0), volume |-> 100 * hm[2] + hm[1]] : hm \in ms },
                  << "time", "volume" >>)

InitBucket ==
    /\ NoCalls
    /\ pc = "idle"
    /\ \E ms \in SUBSET SessionMinutes, size \in BucketSizes :
          grp = [rows |-> SessionSeries(ms), fields |-> << "volume" >>, size |-> size]
    /\ out = EmptyFrame

\* _process_930_data, then the group keys
AssignBuckets ==
    /\ pc = "idle"
    /\ out' = LET fixed == _process_930_data(Frame(<< "time", "volume" >>, grp.rows), grp.fields)
              IN  Frame(<< "time", "volume", "group_id" >>,
                        WithGroupId(fixed.rows, << "time", "volume" >>, grp.size))
    /\ pc' = "returned"
    /\ UNCHANGED << storeKind, store, remote, srcMode, call, result, first, grp, job, mgr >>

NextBucket == AssignBuckets

SpecBucket == InitBucket /\ [][NextBucket]_vars

----------------------------------------------------------------------------
(* The groups of the multi-day route: the daily bars of a stock are given  *)
(* their group keys.                                                       *)

\* the days tried: Dec 30 and 31 2024, Jan 1 2025 (a holiday), Jan 2 and 3, Jan 4
\* (a Saturday), Jan 6 and 7
GroupDays == {-2, -1, 0, 1, 2, 3, 5, 6}

\* the target times: Jan 1 2025 (before the first trading day of its year),
\* Jan 3, Jan 7, Jan 7 at 09:32:45
GroupTargets == { At(0, 0, 0, 0), At(2, 0, 0, 0), At(6, 0, 0, 0), At(6, 9, 32, 45) }

\* the day counts: 2d, 3d
GroupCounts == {2, 3}

\* the daily series made of the given days, ascending
DaySeries(ds) ==
    AscendingRows({ [time |-> At(d, 0, 0, 0), volume |-> 100 * (d + 3)] : d \in ds },
                  << "time", "volume" >>)

InitDayGroup ==
    /\ NoCalls
    /\ pc = "idle"
    /\ \E ds \in SUBSET GroupDays, size \in GroupCounts, target \in GroupTargets :
          grp = [rows |-> DaySeries(ds), fields |-> << "volume" >>, size |-> size,
                 target |-> target]
    /\ out = EmptyFrame

\* the bars up to the target date, sorted; those of the calendar get their keys
AssignDayGroups ==
    /\ pc = "idle"
    /\ out' = LET upTo  == RowsDateUpTo(grp.rows, DateOf(grp.target))
                  valid == RowsInCalendar(sort_values(upTo), AnchorCalendar(grp.target))
              IN  Frame(<< "time", "volume", "group_id" >>,
                        WithDayGroupId(valid, << "time", "volume" >>, grp.size,
                                       AnchorYear(grp.target), AnchorCalendar(grp.target)))
    /\ pc' = "returned"
    /\ UNCHANGED << storeKind, store, remote, srcMode, call, result, first, grp, job, mgr >>

NextDayGroup == AssignDayGroups

SpecDayGroup == InitDayGroup /\ [][NextDayGroup]_vars

----------------------------------------------------------------------------
(* is_trade_day on date texts *)

\* the lengths of the months of 2025
DaysInMonth == << 31, 28, 31, 30, 31, 30, 31, 31, 30, 31, 30, 31 >>

RECURSIVE DayOfYear(_, _)
\* the day (0 = 2025-01-01) of a month and a day of that month
DayOfYear(month, day) ==
    IF month = 1 THEN day - 1 ELSE DaysInMonth[month - 1] + DayOfYear(month - 1, day)

IsDigits(chars) == \A i \in 1 .. Len(chars) : chars[i] \in Range(DigitChars)

\* strptime's %m, the regular expression 1[0-2]|0[1-9]|[1-9]
MonthMatch(chars) == Len(chars) \in 1 .. 2 /\ IsDigits(chars) /\ IntOf(chars) \in 1 .. 12

\* strptime's %d, the regular expression 3[01]|[12]\d|0[1-9]|[1-9]| [1-9]
DayMatch(chars) ==
    \/ Len(chars) \in 1 .. 2 /\ IsDigits(chars) /\ IntOf(chars) \in 1 .. 31
    \/ Len(chars) = 2 /\ chars[1] = " " /\ IsDigits(Tail(chars)) /\ chars[2] # "0"

NoDate == [ok |-> FALSE, day |-> 0]

\* datetime.strptime(date_str, "%Y" + sep + "%m" + sep + "%d"): four digits of
\* the year, then month and day of one or two characters each, the longer month
\* tried first; the whole text must match and the day must exist in its month
strptime_Ymd(date_str, sep) ==
    LET n == Len(date_str)
        k == Len(sep)
        monthAt(ml) == SubSeq(date_str, 5 + k, 4 + k + ml)
        dayAt(ml) == SubSeq(date_str, 5 + 2 * k + ml, n)
        splits == { ml \in 1 .. 2 :
                      /\ n - 4 - 2 * k - ml \in 1 .. 2
                      /\ IsDigits(SubSeq(date_str, 1, 4))
                      /\ SubSeq(date_str, 5, 4 + k) = sep
                      /\ MonthMatch(monthAt(ml))
                      /\ SubSeq(date_str, 5 + k + ml, 4 + 2 * k + ml) = sep
                      /\ DayMatch(dayAt(ml)) }
    IN  IF splits = {} THEN NoDate
        ELSE LET ml == CHOOSE m \in splits : \A o \in splits : o <= m
                 year == IntOf(SubSeq(date_str, 1, 4)) - 2025
                 month == IntOf(monthAt(ml))
                 day == IntOf(SelectSeq(dayAt(ml), LAMBDA c : c # " "))
             IN  IF day > DaysInMonth[month] THEN NoDate
                 ELSE [ok |-> TRUE, day |-> year * DaysPerYear + DayOfYear(month, day)]

RECURSIVE FirstParsed(_, _)
\* for fmt in [...]: try strptime, break at the first format that parses
FirstParsed(date_str, seps) ==
    IF seps = << >> THEN NoDate
    ELSE IF strptime_Ymd(date_str, Head(seps)).ok THEN strptime_Ymd(date_str, Head(seps))
    ELSE FirstParsed(date_str, Tail(seps))

\* is_trade_day(date_str) for a text: a failed strptime of the first two
\* branches and the ValueError of the third are caught by the handler, which
\* parses once more and returns True when that fails too
is_trade_day_text(date_str) ==
    LET parsed == IF "-" \in Range(date_str) /\ Len(date_str) = 10
                  THEN strptime_Ymd(date_str, << "-" >>)
                  ELSE IF IsDigits(date_str) /\ Len(date_str) = 8
                  THEN strptime_Ymd(date_str, << >>)
                  ELSE FirstParsed(date_str, << << "-" >>, << >>, << "/" >> >>)
        again == FirstParsed(date_str, << << "-" >>, << >> >>)
    IN  IF parsed.ok THEN is_trade_day(parsed.day)
        ELSE IF ~again.ok THEN TRUE
        ELSE again.day \notin _cn_holidays /\ Weekday(again.day) < 5

\* a number of at most two digits as text, zero-padded to two digits or not
NumberText(n, padded) ==
    IF n < 10 /\ ~padded THEN << DigitChars[n + 1] >>
    ELSE << DigitChars[(n \div 10) + 1], DigitChars[(n % 10) + 1] >>

\* the date text of an input: year 2025, month and day, the two separators and
\* what follows the day
DateText(i) ==
    << "2", "0", "2", "5" >> \o i.sep1 \o NumberText(i.month, i.padded)
        \o i.sep2 \o NumberText(i.day, i.padded) \o i.rest

\* date_str = None: datetime.now().strftime("%Y-%m-%d")
Today ==
    [given |-> FALSE, month |-> 1, day |-> DateOf(Clock) + 1, sep1 |-> << "-" >>,
     sep2 |-> << "-" >>, padded |-> TRUE, rest |-> << >>]

\* the inputs of is_trade_day: dates of January and February 2025 (the months
\* whose holidays _cn_holidays lists), days that do not exist, a month that does
\* not exist, in the three formats, with mixed separators, with and without
\* zero padding, with a trailing blank; and no input
DateInputs ==
    { i \in [given : {TRUE}, month : {1, 2, 13}, day : {1, 4, 6, 28, 29, 31},
             sep1 : {<< "-" >>, << "/" >>, << >>}, sep2 : {<< "-" >>, << "/" >>, << >>},
             padded : BOOLEAN, rest : {<< >>, << " " >>}] :
        (i.sep1 = << >> /\ i.sep2 = << >>) => i.padded }
    \cup { Today }

InitTradeDay ==
    /\ NoCalls
    /\ pc = "idle"
    /\ grp \in DateInputs
    /\ out = FALSE

CheckTradeDay ==
    /\ pc = "idle"
    /\ out' = is_trade_day_text(DateText(grp))
    /\ pc' = "returned"
    /\ UNCHANGED << storeKind, store, remote, srcMode, call, result, first, grp, job, mgr >>

NextTradeDay == CheckTradeDay

SpecTradeDay == InitTradeDay /\ [][NextTradeDay]_vars

----------------------------------------------------------------------------
(* khKline on a long series: the data source holds one-minute bars of A    *)
(* around the 240 that khKline's documentation names as the most bars a    *)
(* call supports.                                                          *)

\* bar_count: "最大支持240根"
BarCountCap == 240

\* n one-minute bars of A, a minute apart, from 09:31 of Jan 23 2025 on
LongSeries(n) ==
    { Bar(At(22, 9, 31, 0) + (i - 1) * SecondsPerMinute, 10, 10, 10, 10, 100, i) : i \in 1 .. n }

LongLengths == {1, 2, BarCountCap, BarCountCap + 1}

LongArgs ==
    [symbol_list : { << "A" >> }, period : { << "1", "m" >> }, bar_count : LongLengths,
     fields : FieldLists, end_time : RefTimes("1m"), force_download : BOOLEAN]

InitLong ==
    /\ storeKind = "1m"
    /\ srcMode = "full"
    /\ \E n \in LongLengths : store = [s \in Symbols |-> IF s = "A" THEN LongSeries(n) ELSE {}]
    /\ remote = [s \in Symbols |-> {}]
    /\ pc = "idle"
    /\ call = NoCall
    /\ result = NoResult
    /\ first = NoResult
    /\ grp = NoTable
    /\ out = EmptyFrame
    /\ job = NoJob
    /\ mgr = NoManager

CallKhKlineLong ==
    /\ pc = "idle"
    /\ \E a \in LongArgs : Returns([fn |-> "khKline", a |-> a, dlFail |-> {}])
    /\ pc' = "returned"
    /\ UNCHANGED first

NextLong == CallKhKlineLong

SpecLong == InitLong /\ [][NextLong]_vars

----------------------------------------------------------------------------
(* khKline on the multi-day periods, the source holding the daily bars of  *)
(* the turn of the year.                                                   *)

\* the daily bar of A of day d
YearBar(d) == Bar(At(d, 0, 0, 0), 10, 12, 9, 11, 100 * (d + 3), d + 3)

\* the trading days the source may hold: Dec 30 and 31 2024, Jan 2, 3, 6 and 7 2025
YearDays == {-2, -1, 1, 2, 5, 6}

\* '2025-01-01' (before the first trading day of 2025), '20250103', '2025-01-07'
YearTargets == { TimeText(0, TRUE, << >>), TimeText(2, FALSE, << >>), TimeText(6, TRUE, << >>) }

YearArgs ==
    [symbol_list : { << "A" >> }, period : { << "2", "d" >>, << "3", "d" >> },
     bar_count : 1 .. MaxBarCount, fields : { << "volume", "close" >> },
     end_time : YearTargets, force_download : BOOLEAN]

InitYear ==
    /\ storeKind = "1d"
    /\ srcMode = "full"
    /\ \E ds \in SUBSET YearDays :
          store = [s \in Symbols |-> IF s = "A" THEN { YearBar(d) : d \in ds } ELSE {}]
    /\ remote = [s \in Symbols |-> {}]
    /\ pc = "idle"
    /\ call = NoCall
    /\ result = NoResult
    /\ first = NoResult
    /\ grp = NoTable
    /\ out = EmptyFrame
    /\ job = NoJob
    /\ mgr = NoManager

CallKhKlineYear ==
    /\ pc = "idle"
    /\ \E a \in YearArgs : Returns([fn |-> "khKline", a |-> a, dlFail |-> {}])
    /\ pc' = "returned"
    /\ UNCHANGED first

NextYear == CallKhKlineYear

SpecYear == InitYear /\ [][NextYear]_vars

----------------------------------------------------------------------------
(* khMA and KhQuTools.calculate_moving_average: the mean of the last        *)
(* `period` values of a field before end_time, read through khHistory.      *)

\* is_trade_time(): the time of day lies in 09:30:00-11:30:00 or 13:00:00-15:00:00,
\* both ends included
is_trade_time(now) ==
    LET tod == now % SecondsPerDay
    IN  \/ At(0, 9, 30, 0) <= tod /\ tod <= At(0, 11, 30, 0)
        \/ At(0, 13, 0, 0) <= tod /\ tod <= At(0, 15, 0, 0)

IntradaySteps == {"1m", "5m", "tick"}

\* now.strftime('%Y%m%d %H%M%S') on an intraday step, now.strftime('%Y%m%d') else
NowText(now, fre_step) ==
    LET two(n) == << n \div 10, n % 10 >>
    IN  IF fre_step \in IntradaySteps
        THEN TimeText(DateOf(now), FALSE,
                      two(HourOf(now)) \o two(MinuteOf(now)) \o two(now % SecondsPerMinute))
        ELSE TimeText(DateOf(now), FALSE, << >>)

RECURSIVE SumSeq(_)
SumSeq(xs) == IF xs = << >> THEN 0 ELSE Head(xs) + SumSeq(Tail(xs))

\* round(prices.mean(), 2), in hundredths: to the nearest, a tie to the even one
MeanRounded(prices) ==
    LET n == Len(prices)
        q == (100 * SumSeq(prices)) \div n
        r == (100 * SumSeq(prices)) % n
    IN  IF 2 * r > n \/ (2 * r = n /\ q % 2 = 1) THEN q + 1 ELSE q

Float(v) == [kind |-> "float", value |-> v]

\* a check that only an absent or empty table is too little data
NothingReturned(data, stock_code, period) ==
    stock_code \notin Range(data.keys) \/ data.tab[stock_code].rows = << >>

\* stock_code not in data or len(data[stock_code]) < period
Insufficient(data, stock_code, period) ==
    stock_code \notin Range(data.keys) \/ Len(data.tab[stock_code].rows) < period

\* the body khMA and calculate_moving_average share; they differ in force_download
MovingAverage(st, a, force_download) ==
    LET end_time == IF a.end_time.given THEN a.end_time ELSE NowText(a.now, a.fre_step)
        o == khHistory(st, [symbol_list |-> << a.stock_code >>, fields |-> << a.field >>,
                            bar_count |-> a.period, fre_step |-> a.fre_step,
                            current_time |-> end_time, skip_paused |-> FALSE,
                            force_download |-> force_download])
    IN  IF a.fre_step \in IntradaySteps /\ ~is_trade_time(a.now)
        THEN Outcome(ValueError, st, 0)
        ELSE IF o.ret = ValueError THEN o
        ELSE IF Insufficient(o.ret, a.stock_code, a.period)
        THEN Outcome(ValueError, o.st, o.reads)
        ELSE LET rows == o.ret.tab[a.stock_code].rows
             IN  Outcome(Float(MeanRounded([i \in 1 .. Len(rows) |-> rows[i][a.field]])),
                         o.st, o.reads)

khMA(st, a) == MovingAverage(st, a, FALSE)

calculate_moving_average(st, a) == MovingAverage(st, a, TRUE)

\* the calls of the two functions: the wall clock is inside or outside the
\* trading hours
AverageArgs(kind) ==
    [stock_code : Symbols, period : 0 .. MaxBarCount, field : {"close", "volume"},
     fre_step : {kind}, end_time : RefTimes(kind), now : {Clock, At(22, 12, 0, 0)}]

CallAverage ==
    /\ pc = "idle"
    /\ \E a \in AverageArgs(storeKind), fn \in {"khMA", "calculate_moving_average"} :
          \E fails \in (IF fn = "calculate_moving_average" /\ a.stock_code = "A"
                           /\ remote["A"] # {}
                        THEN { {}, {"A"} } ELSE { {} }) :
             LET o == IF fn = "khMA" THEN khMA(Source(fails), a)
                      ELSE calculate_moving_average(Source(fails), a)
             IN  /\ call' = [fn |-> fn, a |-> a, dlFail |-> fails]
                 /\ result' = [ret |-> o.ret, reads |-> o.reads]
                 /\ store' = o.st.store
    /\ pc' = "returned"
    /\ UNCHANGED << storeKind, remote, srcMode, first, grp, out, job, mgr >>

NextAverage == CallAverage

SpecAverage == Init /\ [][NextAverage]_vars

----------------------------------------------------------------------------
(* generate_signal: one buy or sell signal from a price, a ratio and the    *)
(* account.  A ratio is held in hundredths (150 is 1.5), a price in         *)
(* thousandths, a rounded price in hundredths.                              *)

\* round(price, 2): to the nearest hundredth, a tie to the even one
RoundPrice(thousandths) ==
    LET q == thousandths \div 10
        r == thousandths % 10
    IN  IF r < 5 THEN q ELSE IF r > 5 THEN q + 1 ELSE IF q % 2 = 0 THEN q ELSE q + 1

\* a position without the key
NoKey == -1

\* position_data.get("can_use_volume", position_data.get("volume", 0))
AvailableVolume(position_data) ==
    IF position_data.can_use_volume # NoKey THEN position_data.can_use_volume
    ELSE IF position_data.volume # NoKey THEN position_data.volume
    ELSE 0

\* math.floor((available_volume * ratio) / 100) * 100
SellVolume(available_volume, ratio) == ((available_volume * ratio) \div 10000) * 100

Signal(action, price, volume) == [action |-> action, price |-> price, volume |-> volume]

\* max_volume is what calculate_max_buy_volume returns for the price and the share
\* of the cash: a number of whole lots, 0 when nothing can be bought
generate_signal(a) ==
    LET price == RoundPrice(a.price)
    IN  IF a.action = "buy"
        THEN (IF a.ratio > 100
              THEN (LET target_volume == a.ratio \div 100
                    IN  IF target_volume % 100 # 0 THEN << >>
                        ELSE IF a.max_volume = 0 THEN << >>
                        ELSE IF target_volume > a.max_volume
                        THEN << Signal("buy", price, a.max_volume) >>
                        ELSE << Signal("buy", price, target_volume) >>)
              ELSE (IF a.max_volume > 0 THEN << Signal("buy", price, a.max_volume) >>
                    ELSE << >>))
        ELSE IF a.action = "sell"
        THEN (IF ~a.held THEN << >>
              ELSE IF AvailableVolume(a.position) <= 0 THEN << >>
              ELSE IF SellVolume(AvailableVolume(a.position), a.ratio) > 0
              THEN << Signal("sell", price, SellVolume(AvailableVolume(a.position), a.ratio)) >>
              ELSE << >>)
        ELSE << >>

\* the ratios tried: -0.5, 0, 0.5, 1, 1.5, 2, 150 (shares), 200 (shares)
Ratios == {-50, 0, 50, 100, 150, 200, 15000, 20000}

\* the lots of the positions tried, and the key missing
Volumes == {NoKey, 0, 100, 250, 300}

SignalArgs ==
    [action : {"buy", "sell", "hold"}, price : {10004, 10005, 10015}, ratio : Ratios,
     max_volume : {0, 100, 300}, held : BOOLEAN,
     position : [can_use_volume : Volumes, volume : Volumes]]

CallGenerateSignal ==
    /\ pc = "idle"
    /\ \E a \in SignalArgs :
          /\ call' = [fn |-> "generate_signal", a |-> a, dlFail |-> {}]
          /\ result' = [ret |-> generate_signal(a), reads |-> 0]
    /\ pc' = "returned"
    /\ UNCHANGED << storeKind, store, remote, srcMode, first, grp, out, job, mgr >>

InitSignal == NoCalls /\ pc = "idle" /\ grp = NoTable /\ out = EmptyFrame

NextSignal == CallGenerateSignal

SpecSignal == InitSignal /\ [][NextSignal]_vars

----------------------------------------------------------------------------
(* download_and_store_data and supplement_history_data, step by step: each  *)
(* step is one check of check_interrupt followed by the operation it        *)
(* guards.  The caller may make check_interrupt return True at any time;    *)
(* the download, the read, the processing and the saving of a stock may     *)
(* each fail.                                                               *)

DownloadFns == {"download_and_store_data", "supplement_history_data"}

\* where the handling of a stock fails, if it does; "notframe": the source
\* hands out something that is no DataFrame
FailStages == {"none", "download", "read", "notframe", "process", "save"}

\* handlers that treat InterruptedError like any other exception
HandledAlike(fn, exc) ==
    IF fn = "supplement_history_data" THEN "continue" ELSE "raise"

\* the except clauses around the body of one stock: InterruptedError is raised
\* again by both functions; any other exception is logged, then raised again by
\* download_and_store_data and dropped by supplement_history_data
PerStockHandler(fn, exc) ==
    IF exc = "InterruptedError" THEN "raise"
    ELSE IF fn = "supplement_history_data" THEN "continue"
    ELSE "raise"

\* the end of the loop body of a stock: the next stock, or the return
Advance(j) ==
    IF j.index >= Len(j.stocks) THEN [j EXCEPT !.at = "done", !.outcome = "returned"]
    ELSE [j EXCEPT !.index = @ + 1, !.at = "begin"]

\* an exception raised at the current step: outside the loop it reaches the outer
\* handler, which raises it again; inside, the per-stock handler decides
Raise(j, exc) ==
    IF j.at = "files" \/ PerStockHandler(j.fn, exc) = "raise"
    THEN [j EXCEPT !.at = "done", !.outcome = exc]
    ELSE Advance([j EXCEPT !.logged = @ \cup {j.stocks[j.index]}])

\* a request to the data source, or an operation, which fails at its stage
Attempt(j, stage, next) ==
    LET stock == j.stocks[j.index]
        asked == IF stage \in {"download", "read"}
                 THEN [j EXCEPT !.requests = Append(@, << stage, stock >>)]
                 ELSE j
    IN  IF j.fail[stock] = stage
        THEN Raise([asked EXCEPT !.logged = @ \cup {stock}], "Exception")
        ELSE [asked EXCEPT !.at = next]

\* the operation after a check of check_interrupt that returned False
Operation(j) ==
    LET stock == j.stocks[j.index]
        full  == j.fn = "download_and_store_data"
    IN  IF j.at = "files"
        THEN (IF j.stocks = << >> THEN [j EXCEPT !.at = "done", !.outcome = "returned"]
              ELSE [j EXCEPT !.at = "begin", !.index = 1])
        ELSE IF j.at = "begin" THEN [j EXCEPT !.at = "download"]
        ELSE IF j.at = "download" THEN Attempt(j, "download", "read")
        ELSE IF j.at = "read" THEN Attempt(j, "read", IF full THEN "process" ELSE "post")
        ELSE IF j.at = "process"
        THEN (IF j.fail[stock] = "notframe"
              THEN Advance([j EXCEPT !.logged = @ \cup {stock}])
              ELSE Attempt(j, "process", "save"))
        ELSE IF j.at = "save"
        THEN (IF j.fail[stock] = "save" THEN Attempt(j, "save", "post")
              ELSE [j EXCEPT !.stored = @ \cup {stock}, !.at = "post"])
        ELSE Advance(j)

\* if check_interrupt and check_interrupt(): raise InterruptedError(...)
CheckPoint(j) ==
    IF j.interrupt
    THEN Raise([j EXCEPT !.stopAt = IF j.sawTrue THEN @ ELSE Len(j.requests),
                         !.sawTrue = TRUE], "InterruptedError")
    ELSE Operation(j)

StockLists == { << >>, << "A" >>, << "A", "B" >>, << "B", "A" >> }

InitDownload ==
    /\ storeKind = "1d"
    /\ srcMode = "full"
    /\ store = [s \in Symbols |-> {}]
    /\ remote = [s \in Symbols |-> {}]
    /\ pc = "idle"
    /\ call = NoCall
    /\ result = NoResult
    /\ first = NoResult
    /\ grp = NoTable
    /\ out = EmptyFrame
    /\ mgr = NoManager
    /\ \E fn \in DownloadFns, stocks \in StockLists, fail \in [Symbols -> FailStages] :
          job = [fn |-> fn, stocks |-> stocks, fail |-> fail, index |-> 0, at |-> "files",
                 interrupt |-> FALSE, requests |-> << >>, stored |-> {}, logged |-> {},
                 outcome |-> "running", sawTrue |-> FALSE, stopAt |-> 0]

\* the function runs up to its next check of check_interrupt
JobStep ==
    /\ job.outcome = "running"
    /\ job' = CheckPoint(job)
    /\ UNCHANGED << storeKind, store, remote, srcMode, pc, call, result, first, grp, out, mgr >>

\* the caller asks for the interruption: check_interrupt returns True from now on
Interrupt ==
    /\ job.outcome = "running"
    /\ ~job.interrupt
    /\ job' = [job EXCEPT !.interrupt = TRUE]
    /\ UNCHANGED << storeKind, store, remote, srcMode, pc, call, result, first, grp, out, mgr >>

NextDownload == JobStep \/ Interrupt

SpecDownload == InitDownload /\ [][NextDownload]_vars

----------------------------------------------------------------------------
(* StockListUpdateManager: start() creates the queue, the worker process    *)
(* and a timer; check_queue, called by the timer, forwards the worker's     *)
(* messages as signals; stop() ends it all.  The slots connected to the     *)
(* signals run inside emit(), so stop() may be called in the middle of      *)
(* check_queue as well as between two calls of it.                          *)

\* the progress messages stock_list_worker puts before the finished message
ProgressMessages == 7

Progress(i) == << "progress", i >>
Finished(success) == << "finished", success >>

\* a stop() that sets the flag and nothing else
StopSetsFlagOnly(m) == [m EXCEPT !.running = FALSE]

\* stop(): the timer is stopped, a live process is terminated, process and queue
\* are dropped
stop(m) ==
    [m EXCEPT !.running = FALSE, !.timer = FALSE,
              !.worker = IF m.process /\ @ = "alive" THEN "killed" ELSE @,
              !.process = FALSE, !.hasQueue = FALSE]

Emit(m, signal) == [m EXCEPT !.emitted = Append(@, signal)]

\* a manager after __init__
NewManager ==
    [state |-> "created", running |-> TRUE, timer |-> FALSE, process |-> FALSE,
     hasQueue |-> FALSE, queue |-> << >>, worker |-> "none", sent |-> 0,
     at |-> "idle", emitted |-> << >>, stopped |-> FALSE, stoppedAt |-> 0]

InitManager ==
    /\ storeKind = "1m"
    /\ srcMode = "full"
    /\ store = [s \in Symbols |-> {}]
    /\ remote = [s \in Symbols |-> {}]
    /\ call = NoCall
    /\ result = NoResult
    /\ first = NoResult
    /\ pc = "idle"
    /\ grp = NoTable
    /\ out = EmptyFrame
    /\ job = NoJob
    /\ mgr = NewManager

OnlyManager == UNCHANGED << storeKind, store, remote, srcMode, pc, call, result, first, grp, out, job >>

\* start(): the queue, the process and the timer are created; an exception on the
\* way (before or after the process has started) emits finished(False, ...)
Start ==
    /\ mgr.state = "created"
    /\ \E outcome \in {"started", "no process", "no timer"} :
          mgr' = IF outcome = "started"
                 THEN [mgr EXCEPT !.state = "started", !.hasQueue = TRUE, !.process = TRUE,
                                  !.worker = "alive", !.timer = TRUE]
                 ELSE IF outcome = "no timer"
                 THEN Emit([mgr EXCEPT !.state = "started", !.hasQueue = TRUE,
                                       !.process = TRUE, !.worker = "alive"],
                           Finished(FALSE))
                 ELSE Emit([mgr EXCEPT !.state = "started", !.hasQueue = TRUE], Finished(FALSE))
    /\ OnlyManager

\* stock_list_worker puts its next progress message, or the finished message
\* after the last of them
WorkerPut ==
    /\ mgr.worker = "alive"
    /\ mgr.sent <= ProgressMessages
    /\ mgr' = [mgr EXCEPT !.sent = IF @ < ProgressMessages THEN @ + 1 ELSE ProgressMessages + 1,
                          !.queue = Append(@, IF mgr.sent < ProgressMessages
                                              THEN Progress(mgr.sent + 1)
                                              ELSE Finished(TRUE))]
    /\ OnlyManager

\* an exception in stock_list_worker: it puts ("finished", False, error_msg)
WorkerFail ==
    /\ mgr.worker = "alive"
    /\ mgr.sent <= ProgressMessages
    /\ mgr' = [mgr EXCEPT !.sent = ProgressMessages + 1, !.queue = Append(@, Finished(FALSE))]
    /\ OnlyManager

\* the process of the worker ends: with exit code 0 after the finished message, or
\* with another exit code at any time
WorkerExit ==
    /\ mgr.worker = "alive"
    /\ \E code \in {"exited 0", "exited 1"} :
          /\ code = "exited 0" => mgr.sent = ProgressMessages + 1
          /\ mgr' = [mgr EXCEPT !.worker = code]
    /\ OnlyManager

\* the timer fires: check_queue is entered
Tick ==
    /\ mgr.timer
    /\ mgr.at = "idle"
    /\ mgr' = [mgr EXCEPT !.at = "get"]
    /\ OnlyManager

\* check_queue, one turn of its loop: self.queue.get_nowait() and the message
\* handled; without a queue the call raises and check_queue logs and returns
GetMessage ==
    /\ mgr.at = "get"
    /\ mgr' = IF ~mgr.hasQueue THEN [mgr EXCEPT !.at = "idle"]
              ELSE IF mgr.queue = << >> THEN [mgr EXCEPT !.at = "alive"]
              ELSE LET message == Head(mgr.queue)
                       taken   == [mgr EXCEPT !.queue = Tail(@)]
                   IN  IF message[1] = "progress" THEN Emit(taken, message)
                       ELSE Emit([stop(taken) EXCEPT !.at = "alive"], message)
    /\ OnlyManager

\* check_queue, after the loop: a process that has ended with an exit code other
\* than 0
CheckAlive ==
    /\ mgr.at = "alive"
    /\ mgr' = IF mgr.process /\ mgr.worker = "exited 1"
              THEN Emit([stop(mgr) EXCEPT !.at = "idle"], Finished(FALSE))
              ELSE [mgr EXCEPT !.at = "idle"]
    /\ OnlyManager

\* stop() is called from outside
Stop ==
    /\ mgr.state = "started"
    /\ ~mgr.stopped
    /\ mgr' = [stop(mgr) EXCEPT !.stopped = TRUE, !.stoppedAt = Len(mgr.emitted)]
    /\ OnlyManager

NextManager ==
    Start \/ WorkerPut \/ WorkerFail \/ WorkerExit \/ Tick \/ GetMessage \/ CheckAlive \/ Stop

SpecManager == InitManager /\ [][NextManager]_vars

----------------------------------------------------------------------------
(* What the properties speak of *)

\* the instant a time text stands for: its date at midnight, or at HH MM [SS];
\* the clock when no text is given
RefInstant(text) ==
    IF ~text.given THEN Clock
    ELSE IF text.tod = << >> THEN At(text.day, 0, 0, 0)
    ELSE At(text.day, Num(SubSeq(text.tod, 1, 2)), Num(SubSeq(text.tod, 3, 4)),
            IF Len(text.tod) >= 6 THEN Num(SubSeq(text.tod, 5, 6)) ELSE 0)

Returned == pc # "idle"
ReturnedDict == Returned /\ result.ret.kind = "dict"
ReturnedBy(fn) == Returned /\ call.fn = fn

\* the rows returned for a stock
RowsFor(s) == IF s \in Range(result.ret.keys) THEN result.ret.tab[s].rows ELSE << >>

\* the bars of a stock the source holds, in local time, ascending
HeldBars(s) == sort_values(LocalTimes(AscendingRows(store[s], AllColumns)))

----------------------------------------------------------------------------
(* C1 *)

\* C1: every bar khHistory returns lies before the reference time: its timestamp
\* is < the reference time when the period is 1m, 5m or tick, its calendar date is
\* < the reference date when the period is daily, whatever the source holds and
\* whatever bar_count, skip_paused and force_download are.
C1_WindowExcludesReference ==
    (ReturnedBy("khHistory") /\ ReturnedDict) =>
        \A s \in Range(result.ret.keys) : \A i \in 1 .. Len(RowsFor(s)) :
            IF call.a.fre_step \in {"1m", "5m", "tick"}
            THEN RowsFor(s)[i]["time"] < RefInstant(call.a.current_time)
            ELSE DateOf(RowsFor(s)[i]["time"]) < DateOf(RefInstant(call.a.current_time))

\* khHistory has returned bars of A while the source holds a bar of A stamped
\* exactly at the reference time
C1_BarAtReferenceHeld ==
    /\ ReturnedBy("khHistory") /\ ReturnedDict
    /\ RowsFor("A") # << >>
    /\ \E b \in store["A"] : ToLocal(b.time) = RefInstant(call.a.current_time)

----------------------------------------------------------------------------
(* C2 *)

\* the period of the returned khKline call
CallPeriod == PeriodMatch(call.a.period)
\* its target time: the seconds of a given end_time are dropped
CallTarget ==
    IF call.a.end_time.given THEN ZeroSeconds(RefInstant(call.a.end_time)) ELSE Clock

\* a period the code builds from finer bars
Synthesized(m) ==
    /\ m.matched
    /\ IF m.unit = "m" THEN m.num \notin NativeMinutePeriods
       ELSE IF m.unit = "h" THEN TRUE ELSE m.num > 1

\* the sub-bars of a stock seen up to the target time: on the minute and hour
\* periods after the 09:30 bar is merged
SubBars(s) ==
    LET seen == RowsUpTo(HeldBars(s), CallTarget)
    IN  IF CallPeriod.unit = "d" THEN seen
        ELSE _process_930_data(Frame(AllColumns, seen), AllColumns).rows

\* the group of the period a sub-bar stamped t belongs to
GroupOf(t) ==
    LET first_day == _get_year_first_trade_day(YearOf(CallTarget))
        calendar  == _get_trade_days_list(first_day, CallTarget)
    IN  IF CallPeriod.unit = "d"
        THEN DayGroupId(TradeIndex(calendar, DateOf(t)), CallPeriod.num, YearOf(CallTarget))
        ELSE MinuteGroupId(t, IF CallPeriod.unit = "h" THEN 60 * CallPeriod.num
                              ELSE CallPeriod.num)

\* the sub-bars of a stock that share the group of the instant t
GroupMembers(s, t) == SelectSeq(SubBars(s), LAMBDA b : GroupOf(b["time"]) = GroupOf(t))

\* C2: on a synthesized period (minutes other than 1 and 5, hours, more than one
\* day) every bar khKline returns aggregates all the sub-bars of its group that
\* the source holds up to the reference time: the bars before the last are
\* closed, the last one is the exact partial aggregate of its group.
C2_BarsCoverTheirGroups ==
    (ReturnedBy("khKline") /\ ReturnedDict /\ Synthesized(CallPeriod)) =>
        \A s \in Range(result.ret.keys) : \A i \in 1 .. Len(RowsFor(s)) :
            LET r == RowsFor(s)[i]
                members == GroupMembers(s, r["time"])
            IN  /\ members # << >>
                /\ r["time"] = members[Len(members)]["time"]
                /\ r["volume"] = SumOf(members, "volume")

----------------------------------------------------------------------------
(* C3 *)

\* the rows of the table given that bear the key k, in their order
GivenOfGroup(k) == SelectSeq(grp.rows, LAMBDA r : r["group_id"] = k)

RECURSIVE Total(_, _, _)
\* the sum of column c over the first n rows
Total(rows, c, n) == IF n = 0 THEN 0 ELSE Total(rows, c, n - 1) + rows[n][c]

\* the bar r is the aggregate of the bars ms under the rule table, on the fields asked for
IsAggregateOf(r, ms, fields) ==
    /\ r["time"] = ms[Len(ms)]["time"]
    /\ "open" \in fields => r["open"] = ms[1]["open"]
    /\ "high" \in fields => /\ \A i \in 1 .. Len(ms) : r["high"] >= ms[i]["high"]
                            /\ \E i \in 1 .. Len(ms) : r["high"] = ms[i]["high"]
    /\ "low" \in fields => /\ \A i \in 1 .. Len(ms) : r["low"] <= ms[i]["low"]
                           /\ \E i \in 1 .. Len(ms) : r["low"] = ms[i]["low"]
    /\ "close" \in fields => r["close"] = ms[Len(ms)]["close"]
    /\ "volume" \in fields => r["volume"] = Total(ms, "volume", Len(ms))
    /\ "amount" \in fields => r["amount"] = Total(ms, "amount", Len(ms))

\* C3: _aggregate_kline gives one bar for every group of the time-ordered bars it
\* is given: its time is the last bar's time, its open the first bar's open, its
\* high the highest high, its low the lowest low, its close the last bar's close,
\* its volume and amount the sums, for each of these fields that is asked for.
C3_AggregateFollowsRuleTable ==
    (pc = "returned" /\ grp.rows # << >> /\ "group_id" \in Range(out.cols)) =>
        LET keys == { grp.rows[i]["group_id"] : i \in 1 .. Len(grp.rows) }
        IN  /\ Len(out.rows) = Cardinality(keys)
            /\ \A k \in keys :
                  \E i \in 1 .. Len(out.rows) :
                     /\ out.rows[i]["group_id"] = k
                     /\ IsAggregateOf(out.rows[i], GivenOfGroup(k), Range(grp.fields))

\* the example group has been aggregated, all fields asked for, to
\* (o=10, h=13, l=9, c=12, v=300)
C3_ExampleAggregated ==
    /\ pc = "returned"
    /\ grp.rows = ExampleGroup
    /\ grp.fields = << "open", "high", "low", "close", "volume", "amount" >>
    /\ Len(out.rows) = 1
    /\ out.rows[1]["open"] = 10 /\ out.rows[1]["high"] = 13 /\ out.rows[1]["low"] = 9
    /\ out.rows[1]["close"] = 12 /\ out.rows[1]["volume"] = 300

----------------------------------------------------------------------------
(* C4 *)

GivenOfDay(d) == SelectSeq(grp.rows, LAMBDA r : DateOf(r["time"]) = d)
CorrectedOfDay(d) == SelectSeq(out.rows, LAMBDA r : DateOf(r["time"]) = d)

At0930(r) == r["time"] % SecondsPerDay = 9 * SecondsPerHour + 30 * SecondsPerMinute
At0931(r) == r["time"] % SecondsPerDay = 9 * SecondsPerHour + 31 * SecondsPerMinute

\* the bar of 09:31 with the bar of 09:30 merged in: open copied, volume and
\* amount added up, the other columns kept
MergedBar(b930, b931) ==
    [c \in DOMAIN b931 |->
        IF c = "open" THEN b930[c]
        ELSE IF c \in {"volume", "amount"} THEN b930[c] + b931[c]
        ELSE b931[c]]

\* C4: _process_930_data, day by day: when the day has its 09:30 bar and its
\* 09:31 bar, the 09:30 bar is gone, the 09:31 bar has the open of the 09:30 bar
\* and the two volumes and the two amounts added up, and the other bars are as
\* they were; when the day has no 09:31 bar its bars, the 09:30 bar among them,
\* are as they were.  The bars come back in time order.
C4_OpeningBarMerged ==
    (pc = "returned" /\ "time" \in Range(out.cols)) =>
        /\ \A i, j \in 1 .. Len(out.rows) : i < j => out.rows[i]["time"] < out.rows[j]["time"]
        /\ \A d \in { DateOf(grp.rows[i]["time"]) : i \in 1 .. Len(grp.rows) }
                    \cup { DateOf(out.rows[i]["time"]) : i \in 1 .. Len(out.rows) } :
              LET given == Range(GivenOfDay(d))
                  b930  == { r \in given : At0930(r) }
                  b931  == { r \in given : At0931(r) }
              IN  IF b930 # {} /\ b931 # {}
                  THEN Range(CorrectedOfDay(d)) =
                          (given \ (b930 \cup b931))
                          \cup { MergedBar(x, y) : x \in b930, y \in b931 }
                  ELSE CorrectedOfDay(d) = GivenOfDay(d)

\* the example morning has been corrected: the 09:30 bar of volume 500 is gone and
\* the 09:31 bar has its open and the volume 800; the day before, which has no
\* 09:31 bar, has kept its 09:30 bar
C4_ExampleMorningCorrected ==
    /\ pc = "returned"
    /\ \E i \in 1 .. Len(out.rows) : DateOf(out.rows[i]["time"]) = 21 /\ At0930(out.rows[i])
    /\ grp.fields = << "open", "high", "low", "close", "volume", "amount" >>
    /\ \E i \in 1 .. Len(grp.rows) : At0930(grp.rows[i]) /\ grp.rows[i]["volume"] = 500
    /\ \A i \in 1 .. Len(out.rows) : DateOf(out.rows[i]["time"]) = 22 => ~At0930(out.rows[i])
    /\ \E i \in 1 .. Len(out.rows) :
          /\ At0931(out.rows[i]) /\ out.rows[i]["volume"] = 800
          /\ out.rows[i]["open"] > 30

----------------------------------------------------------------------------
(* C5 *)

\* C5: on a period of more than one day, the bars two symbols of one khKline call
\* get for the same group carry the same timestamp, also when one symbol lacks
\* trading days the other has.
C5_SameGroupSameTimestamp ==
    (ReturnedBy("khKline") /\ ReturnedDict /\ CallPeriod.matched
        /\ CallPeriod.unit = "d" /\ CallPeriod.num > 1) =>
        \A s, t \in Range(result.ret.keys) :
            \A i \in 1 .. Len(RowsFor(s)), j \in 1 .. Len(RowsFor(t)) :
                RowsFor(s)[i]["group_id"] = RowsFor(t)[j]["group_id"]
                    => RowsFor(s)[i]["time"] = RowsFor(t)[j]["time"]

----------------------------------------------------------------------------
(* C6 *)

\* one or more decimal digits, then one unit letter m, h or d (of either case)
WellFormedPeriod(p) ==
    /\ Len(p) >= 2
    /\ LowerChar(p[Len(p)]) \in {"m", "h", "d"}
    /\ \A i \in 1 .. Len(p) - 1 : p[i] \in Range(DigitChars)

\* C6: khKline raises ValueError, before any request to the data source, for every
\* period text that is not a decimal integer immediately followed by exactly one
\* unit letter m, h or d.
C6_MalformedPeriodRaises ==
    (ReturnedBy("khKline") /\ call.a.symbol_list # << >> /\ call.a.bar_count > 0
        /\ ~WellFormedPeriod(call.a.period)) =>
        (result.ret = ValueError /\ result.reads = 0)

----------------------------------------------------------------------------
(* C7 *)

\* the calls whose arguments are all valid
ArgsValid ==
    /\ Returned
    /\ IF call.fn = "khHistory" THEN call.a \in HistoryArgs(storeKind)
       ELSE call.a \in KlineArgs(storeKind)

TimesOf(rows) == [i \in 1 .. Len(rows) |-> rows[i]["time"]]

\* the first date of the window a call fetches: the reference date less the
\* lookback days of its route, and on a multi-day period not before the first
\* trading day of the year
WindowStart ==
    IF call.fn = "khHistory"
    THEN DateOf(RefInstant(call.a.current_time)
                - HistoryLookbackDays(call.a.fre_step, call.a.bar_count) * SecondsPerDay)
    ELSE IF CallPeriod.unit = "m"
    THEN DateOf(CallTarget - MinuteLookbackDays(call.a.bar_count, CallPeriod.num) * SecondsPerDay)
    ELSE IF CallPeriod.unit = "h"
    THEN DateOf(CallTarget - MinuteLookbackDays(call.a.bar_count, 60 * CallPeriod.num) * SecondsPerDay)
    ELSE IF CallPeriod.num = 1
    THEN DateOf(CallTarget - call.a.bar_count * 5 * SecondsPerDay)
    ELSE Max2(DateOf(_get_year_first_trade_day(YearOf(CallTarget))),
              DateOf(CallTarget - call.a.bar_count * CallPeriod.num * 5 * SecondsPerDay))

\* the bars of a stock that qualify, among those dated from_day or later: for
\* khHistory the bars before the reference time (by date on the daily period),
\* traded ones only under skip_paused; for khKline the bars up to the reference time
QualifyingBars(s, from_day) ==
    LET held == SelectSeq(HeldBars(s), LAMBDA b : DateOf(b["time"]) >= from_day)
    IN  IF call.fn = "khHistory"
        THEN LET ref == RefInstant(call.a.current_time)
                 before == IF call.a.fre_step = "1d"
                           THEN SelectSeq(held, LAMBDA b : DateOf(b["time"]) < DateOf(ref))
                           ELSE SelectSeq(held, LAMBDA b : b["time"] < ref)
             IN  IF call.a.skip_paused THEN SelectSeq(before, LAMBDA b : b["volume"] > 0)
                 ELSE before
        ELSE LET seen == SelectSeq(held, LAMBDA b : b["time"] <= CallTarget)
             IN  IF CallPeriod.unit = "d" THEN seen
                 ELSE IF ~Synthesized(CallPeriod) THEN seen
                 ELSE _process_930_data(Frame(AllColumns, seen), AllColumns).rows

\* the timestamps the call owes for a stock: those of the qualifying bars, or on a
\* synthesized period those of the last bar of each of their groups
OwedTimes(s, from_day) ==
    LET bars == QualifyingBars(s, from_day)
    IN  IF call.fn = "khKline" /\ Synthesized(CallPeriod)
        THEN TimesOf(SelectSeq(bars, LAMBDA b :
                \A c \in Range(bars) :
                    GroupOf(c["time"]) = GroupOf(b["time"]) => c["time"] <= b["time"]))
        ELSE TimesOf(bars)

\* the data source answers its reads, with tables that have their time column
SourceAnswers == srcMode \in {"full", "sparse"}

----------------------------------------------------------------------------
(* C8 *)

\* the reference time of the returned call is given
RefGiven ==
    IF call.fn = "khHistory" THEN call.a.current_time.given ELSE call.a.end_time.given

\* C8: khHistory or khKline called a second time with the same arguments, an
\* explicit reference time among them, and the data source left as the first
\* call left it, returns what the first call returned: the same keys in the same
\* order with the same bars.
C8_SecondCallReturnsTheSame ==
    (pc = "again" /\ RefGiven) => result.ret = first.ret

\* a second call has returned bars of A, after a first one that downloaded
C8_CalledTwiceWithBars ==
    /\ pc = "again" /\ RefGiven
    /\ call.a.force_download
    /\ RowsFor("A") # << >>

----------------------------------------------------------------------------
(* C9 *)

\* C9: a call of khHistory or khKline with valid arguments returns a mapping
\* whose keys are the requested symbols in their input order; a symbol the
\* source has no data for maps to an empty table, also when the source has no
\* data for any symbol.
C9_EveryRequestedSymbolIsAKey ==
    ArgsValid =>
        /\ result.ret.kind = "dict"
        /\ result.ret.keys = call.a.symbol_list
        /\ \A s \in Range(call.a.symbol_list) : store[s] = {} => RowsFor(s) = << >>

----------------------------------------------------------------------------
(* C10 *)

\* C10: khHistory and khKline raise ValueError without a request to the data
\* source when the symbol list is empty, the field list is empty or bar_count
\* is not positive.
C10_EmptyOrNonPositiveRaises ==
    (Returned /\ (call.a.symbol_list = << >> \/ call.a.fields = << >>
                    \/ call.a.bar_count <= 0)) =>
        (result.ret = ValueError /\ result.reads = 0)

----------------------------------------------------------------------------
(* C11 *)

\* the integer part of a well-formed period text is zero
ZeroCount(p) == \A i \in 1 .. Len(p) - 1 : p[i] = "0"

\* C11: a period text whose integer part is zero ("0m", "0h", "0d") is a format
\* error: khKline raises ValueError for it, before any request to the data source
\* and without entering the minute, hour or day route.
C11_ZeroCountRaises ==
    (ReturnedBy("khKline") /\ call.a.symbol_list # << >> /\ call.a.bar_count > 0
        /\ WellFormedPeriod(call.a.period) /\ ZeroCount(call.a.period)) =>
        (result.ret = ValueError /\ result.reads = 0)

----------------------------------------------------------------------------
(* C12 *)

\* C12: khKline enforces the upper bound of 240 on bar_count: whatever bar_count
\* is passed, no symbol gets more than 240 bars.
C12_AtMostCapBars ==
    (ReturnedBy("khKline") /\ ReturnedDict) =>
        \A s \in Range(result.ret.keys) : Len(RowsFor(s)) <= BarCountCap

----------------------------------------------------------------------------
(* C13 *)

\* C13: every non-empty table khHistory or khKline returns, on every route, has
\* the time column first, then exactly the requested fields in the order of the
\* request, and no other column.
C13_TimeThenRequestedFields ==
    (ArgsValid /\ ReturnedDict) =>
        \A s \in Range(result.ret.keys) :
            RowsFor(s) # << >> => result.ret.tab[s].cols = << "time" >> \o call.a.fields

----------------------------------------------------------------------------
(* C14 *)

\* the fields of the rule table
RuleFields == {"open", "high", "low", "close", "volume", "amount"}

\* C14: a requested field outside the rule table (not open, high, low, close,
\* volume, amount) is a column of what _aggregate_kline gives, and holds for
\* every group the value of the group's last bar.
C14_OtherFieldsTakeLast ==
    (pc = "returned" /\ grp.rows # << >> /\ "group_id" \in Range(out.cols)) =>
        \A f \in Range(grp.fields) \ RuleFields :
            /\ f \in Range(out.cols)
            /\ \A i \in 1 .. Len(out.rows) :
                  LET ms == GivenOfGroup(out.rows[i]["group_id"])
                  IN  out.rows[i][f] = ms[Len(ms)][f]

----------------------------------------------------------------------------
(* C15 *)

\* what the returned call returns when it is made for one stock alone
AloneFor(s) == Invoke([call EXCEPT !.a.symbol_list = << s >>]).ret

\* C15: in a khKline batch, an exception raised while one stock is processed
\* (here stock A, whose table comes without its time column) gives that stock an
\* empty table and leaves the other stocks of the batch with the bars they get
\* when asked for alone.
C15_FailedSymbolAloneIsEmpty ==
    (ReturnedBy("khKline") /\ ArgsValid /\ srcMode = "notime"
        /\ call.a.symbol_list = << "B", "A" >>) =>
        /\ result.ret.kind = "dict"
        /\ result.ret.keys = call.a.symbol_list
        /\ RowsFor("A") = << >>
        /\ RowsFor("B") = AloneFor("B").tab["B"].rows

----------------------------------------------------------------------------
(* C16 *)

\* C16: a call of khHistory or khKline either raises ValueError from its
\* validation, before any request to the data source, or returns a mapping: no
\* failure of the refresh, of the read or of the processing of the bars leaves
\* the call as an exception.
C16_ReturnsOnceValidated ==
    Returned => \/ result.ret.kind = "dict"
                \/ result.ret = ValueError /\ result.reads = 0

\* a call has returned the empty mapping although the read of the source
\* raised, another although the table of a stock could not be processed
C16_SourceFailureReturnedEmpty ==
    /\ Returned /\ ArgsValid
    /\ srcMode \in {"raise", "notime"}
    /\ store["A"] # {}
    /\ result.reads > 0
    /\ result.ret = EmptyDict

----------------------------------------------------------------------------
(* C17 *)

\* the input is a date that exists, written in one of the formats with its
\* separators alike and nothing after the day
DenotesDate(i) ==
    /\ i.sep1 = i.sep2 /\ i.rest = << >>
    /\ i.month \in 1 .. 12
    /\ i.day \in 1 .. DaysInMonth[i.month]

\* C17: is_trade_day returns True for an input that is a date exactly when the
\* date's weekday is Monday to Friday and the date is no holiday, and returns
\* True for every input that cannot be read as a date.
C17_TradeDayOrUnparsed ==
    pc = "returned" =>
        out = IF DenotesDate(grp)
              THEN LET d == DayOfYear(grp.month, grp.day)
                   IN  Weekday(d) < 5 /\ d \notin _cn_holidays
              ELSE TRUE

\* 2025/1/28, a Tuesday of the Spring Festival, has been found to be no trading day
C17_HolidayOnWeekdayRefused ==
    /\ pc = "returned"
    /\ grp.month = 1 /\ grp.day = 28 /\ grp.sep1 = << "/" >> /\ DenotesDate(grp)
    /\ ~grp.padded
    /\ out = FALSE

----------------------------------------------------------------------------
(* C18 *)

\* the last n elements of a sequence, all of them when there are fewer
Trailing(seq, n) == SubSeq(seq, Max2(1, Len(seq) - n + 1), Len(seq))

\* the bars of a stock the source holds with no volume
Suspended(s) == { b["time"] : b \in { h \in Range(HeldBars(s)) : h["volume"] = 0 } }

\* C18: with skip_paused set, whichever fields are requested, the table khHistory
\* returns for a stock has no bar whose volume in the source is zero, and holds
\* the trailing bar_count of the traded bars before the reference time (inside
\* the window the call fetches).
C18_SuspendedBarsSkipped ==
    (ReturnedBy("khHistory") /\ SourceAnswers /\ call.a.skip_paused
        /\ (ArgsValid \/ call.a \in HistoryUnvolumed(storeKind))) =>
        \A s \in Range(call.a.symbol_list) :
            /\ result.ret.kind = "dict"
            /\ \A i \in 1 .. Len(RowsFor(s)) : RowsFor(s)[i]["time"] \notin Suspended(s)
            /\ TimesOf(RowsFor(s)) = Trailing(OwedTimes(s, WindowStart), call.a.bar_count)

----------------------------------------------------------------------------
(* C19 *)

\* the timestamps of the bars of a stock dated from_day or later and up to the
\* reference of the returned khKline call: by date on the daily period
NativeOwed(s, from_day) ==
    TimesOf(SelectSeq(HeldBars(s), LAMBDA b :
        /\ DateOf(b["time"]) >= from_day
        /\ IF CallPeriod.unit = "d" THEN DateOf(b["time"]) <= DateOf(CallTarget)
           ELSE b["time"] <= CallTarget))

\* the timestamps khHistory returns for a stock when it is given the inputs of
\* the returned khKline call
HistoryTimes(s) ==
    LET h == Invoke([fn |-> "khHistory", dlFail |-> call.dlFail,
                     a |-> [symbol_list |-> call.a.symbol_list, fields |-> call.a.fields,
                            bar_count |-> call.a.bar_count, fre_step |-> storeKind,
                            current_time |-> call.a.end_time, skip_paused |-> FALSE,
                            force_download |-> call.a.force_download]]).ret
    IN  IF h.kind = "dict" /\ s \in Range(h.keys) THEN TimesOf(h.tab[s].rows) ELSE << >>

\* the instants that count as the reference itself: on the daily period those of
\* the reference date
AtReference(t) ==
    IF CallPeriod.unit = "d" THEN DateOf(t) = DateOf(CallTarget) ELSE t = CallTarget

\* a call of khKline on a native period, with a reference time, that the source answers
NativeCall ==
    /\ ReturnedBy("khKline") /\ ArgsValid /\ SourceAnswers
    /\ ~Synthesized(CallPeriod)

\* C19 as it stands: on the native periods 1m, 5m and 1d khKline returns the
\* trailing bar_count of exactly the bars of the source up to the reference time
\* (reference date), the bar stamped at the reference among them, which khHistory
\* with the same inputs excludes.
C19_NativeAllSourceBars ==
    NativeCall =>
        \A s \in Range(call.a.symbol_list) :
            /\ TimesOf(RowsFor(s)) = Trailing(NativeOwed(s, 0), call.a.bar_count)
            /\ RefGiven => \A t \in Range(HistoryTimes(s)) : ~AtReference(t)

\* C19: on the native periods 1m, 5m and 1d khKline returns the trailing
\* bar_count of the bars of the source that lie inside the window the call
\* fetches and are stamped up to the reference time (reference date), the bar
\* stamped at the reference among them, which khHistory with the same inputs
\* excludes.
C19_NativeBoundaryInclusive ==
    NativeCall =>
        \A s \in Range(call.a.symbol_list) :
            /\ TimesOf(RowsFor(s)) = Trailing(NativeOwed(s, WindowStart), call.a.bar_count)
            /\ RefGiven => \A t \in Range(HistoryTimes(s)) : ~AtReference(t)

\* khKline has returned the bar of A stamped at its reference time, which
\* khHistory leaves out
C19_BarAtReferenceReturned ==
    /\ NativeCall /\ RefGiven
    /\ \E t \in Range(TimesOf(RowsFor("A"))) : AtReference(t)
    /\ HistoryTimes("A") # << >>
    /\ \A t \in Range(HistoryTimes("A")) : ~AtReference(t)

----------------------------------------------------------------------------
(* C20 *)

\* what the returned call returns when its end_time is written
\* 'YYYY-MM-DD HH:MM' for the same date, hour and minute
WithColons ==
    Invoke([call EXCEPT !.a.end_time = TimeText(call.a.end_time.day, TRUE,
                                                call.a.end_time.tod)]).ret

\* C20: khKline reads an end_time written 'YYYYMMDD HHMM' as hour HH and minute
\* MM of that date, seconds zero: it returns what it returns for
\* 'YYYY-MM-DD HH:MM' with the same date, hour and minute.
C20_ShortTimeReadAsHourMinute ==
    (ReturnedBy("khKline") /\ (ArgsValid \/ call.a \in KlineShortTimes(storeKind))
        /\ call.a.end_time.given /\ ~call.a.end_time.dashed
        /\ Len(call.a.end_time.tod) = 4) =>
        result.ret = WithColons

----------------------------------------------------------------------------
(* C21 *)

\* the instant the returned call of khMA takes as its end_time
AverageReference ==
    IF call.a.end_time.given THEN RefInstant(call.a.end_time) ELSE call.a.now

\* the values of the requested field in the bars the source holds for the stock
\* strictly before the reference (before its date on the daily step), ascending
ValuesBefore ==
    LET before == SelectSeq(HeldBars(call.a.stock_code), LAMBDA b :
                     IF call.a.fre_step = "1d"
                     THEN DateOf(b["time"]) < DateOf(AverageReference)
                     ELSE b["time"] < AverageReference)
    IN  [i \in 1 .. Len(before) |-> before[i][call.a.field]]

\* C21: khMA and calculate_moving_average either raise ValueError or return the
\* mean of exactly `period` bars of the requested field, the last ones strictly
\* earlier than end_time; with fewer such bars, or no table for the stock, they
\* raise ValueError and never average fewer bars.
C21_MeanOfPeriodBarsOrError ==
    pc = "returned" =>
        \/ result.ret = ValueError
        \/ /\ result.ret.kind = "float"
           /\ call.a.period >= 1
           /\ Len(ValuesBefore) >= call.a.period
           /\ result.ret.value = MeanRounded(Trailing(ValuesBefore, call.a.period))

\* a call for two bars has returned the mean of the two bars there are
C21_MeanOverTwoBars ==
    /\ pc = "returned"
    /\ call.a.period = 2
    /\ result.ret.kind = "float"
    /\ Len(ValuesBefore) = 2

----------------------------------------------------------------------------
(* C22 *)

\* the requests made to the data source for a stock
Requested(stock) == { job.requests[i][1] : i \in { n \in 1 .. Len(job.requests) :
                                                       job.requests[n][2] = stock } }

\* C22: when download_and_store_data has ended without an interruption, every
\* stock of the list whose own download, read, processing and saving do not fail
\* has been downloaded and stored, whatever failed for the stocks before it.
C22_LaterStocksStillStored ==
    (job.fn = "download_and_store_data" /\ job.outcome # "running" /\ ~job.sawTrue) =>
        \A i \in 1 .. Len(job.stocks) :
            job.fail[job.stocks[i]] = "none"
                => (job.stocks[i] \in job.stored /\ "download" \in Requested(job.stocks[i]))

----------------------------------------------------------------------------
(* C23 *)

\* C23: once a check of check_interrupt has returned True, in
\* download_and_store_data and in supplement_history_data, the function has
\* ended with InterruptedError raised to its caller, and no request to the data
\* source has been made since that check.
C23_InterruptPropagates ==
    job.sawTrue => (job.outcome = "InterruptedError" /\ Len(job.requests) = job.stopAt)

\* supplement_history_data has been interrupted after the download of its first
\* stock of two, and has made no request for the second
C23_InterruptedBetweenStocks ==
    /\ job.fn = "supplement_history_data"
    /\ job.sawTrue /\ job.outcome = "InterruptedError"
    /\ Len(job.stocks) = 2 /\ job.index = 1
    /\ "download" \in Requested(job.stocks[1])
    /\ Requested(job.stocks[2]) = {}

----------------------------------------------------------------------------
(* C24 *)

\* C24: in every per-symbol table khKline returns on a synthesized period
\* (minutes other than 1 and 5, hours, more than one day) the timestamps are
\* strictly increasing, hence unique: the order of the groups by their keys is
\* the order of their times.  (The bars the source holds of one symbol have
\* distinct timestamps.)
C24_TimestampsStrictlyIncrease ==
    (ReturnedBy("khKline") /\ ReturnedDict /\ Synthesized(CallPeriod)) =>
        \A s \in Range(result.ret.keys) : \A i \in 1 .. Len(RowsFor(s)) - 1 :
            RowsFor(s)[i]["time"] < RowsFor(s)[i + 1]["time"]

\* khKline has returned two or more bars of A built on a synthesized period
C24_SeveralBarsSynthesized ==
    /\ ReturnedBy("khKline") /\ ReturnedDict /\ Synthesized(CallPeriod)
    /\ "A" \in Range(result.ret.keys)
    /\ Len(RowsFor("A")) >= 2

----------------------------------------------------------------------------
(* C25 *)

\* the number of session minutes from 09:31 to the instant t: 0 at 09:31, 119 at
\* 11:30, 120 at 13:01, 239 at 15:00; -1 at 09:30
SessionOffset(t) ==
    LET minute == (t % SecondsPerDay) \div SecondsPerMinute
    IN  IF minute <= 11 * 60 + 30 THEN minute - (9 * 60 + 31)
        ELSE 120 + (minute - (13 * 60 + 1))

\* the key of the bucket of index n on the day of t
BucketKey(t, n) == << DateOf(t) >> \o Format03d(n)

\* the buckets have been assigned to the bars of a day
Bucketed == pc = "returned" /\ grp.rows # << >>

\* C25 as stated: each bar is in the bucket floor(offset / size), the offset being
\* the number of session minutes from the day's first bar after the correction
\* of the opening to this bar.
C25_BucketsFromFirstBar ==
    Bucketed =>
        \A i \in 1 .. Len(out.rows) :
            out.rows[i]["group_id"]
                = BucketKey(out.rows[i]["time"],
                            (SessionOffset(out.rows[i]["time"])
                                - SessionOffset(out.rows[1]["time"])) \div grp.size)

\* C25, amended: each bar is in the bucket floor(offset / size), the offset being
\* the number of session minutes from 09:31 to this bar, whichever the day's
\* first bar is; the offsets run on across the lunch break, 13:01 being one more
\* than 11:30.
C25_BucketsFrom0931 ==
    Bucketed =>
        \A i \in 1 .. Len(out.rows) :
            out.rows[i]["group_id"]
                = BucketKey(out.rows[i]["time"], SessionOffset(out.rows[i]["time"]) \div grp.size)

\* the day's bars begin at 09:32 and go on to 13:01, in buckets of two hours
C25_LateStartAcrossLunch ==
    /\ Bucketed
    /\ grp.size = 120
    /\ out.rows[1]["time"] = At(22, 9, 32, 0)
    /\ \E i \in 1 .. Len(out.rows) : out.rows[i]["time"] = At(22, 11, 30, 0)
    /\ \E i \in 1 .. Len(out.rows) : out.rows[i]["time"] = At(22, 13, 1, 0)

----------------------------------------------------------------------------
(* C26 *)

\* the first trading day of a year (0 = 2025), as a day number
FirstTradingDayOf(year) ==
    LET january == { d \in year * DaysPerYear .. year * DaysPerYear + 30 : is_trade_day(d) }
    IN  CHOOSE d \in january : \A e \in january : d <= e

\* the anchor year of a reference time: its year, or the year before when it
\* precedes the first trading day of its year
AnchorOf(t) ==
    IF t < At(FirstTradingDayOf(YearOf(t)), 0, 0, 0) THEN YearOf(t) - 1 ELSE YearOf(t)

\* the day is in the trading-day list of the reference time t
Listed(day, t) ==
    /\ is_trade_day(day)
    /\ FirstTradingDayOf(AnchorOf(t)) <= day
    /\ day <= DateOf(t)
    /\ YearOf(At(day, 0, 0, 0)) = AnchorOf(t)

\* the zero-based position of a listed day in the list
PositionOf(day, t) ==
    Cardinality({ d \in FirstTradingDayOf(AnchorOf(t)) .. day - 1 : is_trade_day(d) })

DayGrouped == pc = "returned" /\ grp.rows # << >>

\* C26: on the multi-day route the bars whose date is in the trading-day list of
\* the anchor year are kept, in their order, each with the group index
\* floor(k / count), k being the position of its date in the list; the others
\* are dropped.  The group of a bar is a function of its date, the count and the
\* reference time alone.
C26_GroupIsPositionOverCount ==
    DayGrouped =>
        LET kept == SelectSeq(grp.rows, LAMBDA r : Listed(DateOf(r["time"]), grp.target))
        IN  /\ Len(out.rows) = Len(kept)
            /\ \A i \in 1 .. Len(kept) :
                  /\ out.rows[i]["time"] = kept[i]["time"]
                  /\ out.rows[i]["group_id"]
                        = << AnchorOf(grp.target) >>
                            \o Format03d(PositionOf(DateOf(kept[i]["time"]), grp.target)
                                            \div grp.size)

\* the reference time is Jan 1 2025, before the first trading day of its year: a bar
\* of Dec 31 2024 is kept and a bar of Jan 1 2025 is dropped
C26_AnchoredOnPreviousYear ==
    /\ DayGrouped
    /\ grp.target = At(0, 0, 0, 0)
    /\ \E i \in 1 .. Len(grp.rows) : grp.rows[i]["time"] = At(0, 0, 0, 0)
    /\ \E i \in 1 .. Len(out.rows) : out.rows[i]["time"] = At(-1, 0, 0, 0)
    /\ \A i \in 1 .. Len(out.rows) : out.rows[i]["time"] # At(0, 0, 0, 0)

----------------------------------------------------------------------------
(* C27 *)

\* the prices of a bar are consistent: low <= open <= high and low <= close <= high
Consistent(b) ==
    /\ b["low"] <= b["open"] /\ b["open"] <= b["high"]
    /\ b["low"] <= b["close"] /\ b["close"] <= b["high"]

\* the call asked for the four prices
AllPricesAsked == {"open", "high", "low", "close"} \subseteq Range(call.a.fields)

\* C27: every bar khKline returns on the minute and hour routes (the source
\* holding 1-minute bars whose prices are consistent) has consistent prices:
\* low <= open <= high and low <= close <= high.
C27_ReturnedBarsConsistent ==
    (ReturnedBy("khKline") /\ ReturnedDict /\ CallPeriod.matched
        /\ CallPeriod.unit \in {"m", "h"} /\ AllPricesAsked
        /\ \A s \in Symbols : \A b \in store[s] : Consistent(b)) =>
        \A s \in Range(result.ret.keys) : \A i \in 1 .. Len(RowsFor(s)) :
            Consistent(RowsFor(s)[i])

----------------------------------------------------------------------------
(* C28 *)

\* khKline has returned from its multi-day route
MultiDayReturned ==
    /\ ReturnedBy("khKline") /\ ReturnedDict
    /\ CallPeriod.matched /\ CallPeriod.unit = "d" /\ CallPeriod.num > 1

\* the trading days of the anchor year up to the reference date
AnchorDays ==
    { d \in FirstTradingDayOf(AnchorOf(CallTarget)) .. DateOf(CallTarget) : Listed(d, CallTarget) }

\* the bars a stock holds of the group of day d, from the day lo on
GroupFrom(s, d, lo) ==
    SelectSeq(HeldBars(s),
              LAMBDA b : /\ DateOf(b["time"]) \in AnchorDays
                         /\ DateOf(b["time"]) >= lo
                         /\ PositionOf(DateOf(b["time"]), CallTarget) \div CallPeriod.num
                               = PositionOf(d, CallTarget) \div CallPeriod.num)

\* C28: on the multi-day route every returned bar is dated on a trading day of
\* the anchor year up to the reference date and is built from the bars of its
\* group that lie in that range (from some day of the range on) and from no
\* other; the result has at most ceil(T / count) bars, T being the number of
\* those trading days.
C28_OnlyTheAnchorYear ==
    MultiDayReturned =>
        \A s \in Range(result.ret.keys) :
            /\ CallPeriod.num * Len(RowsFor(s)) < Cardinality(AnchorDays) + CallPeriod.num
            /\ \A i \in 1 .. Len(RowsFor(s)) :
                  LET r == RowsFor(s)[i]
                  IN  /\ DateOf(r["time"]) \in AnchorDays
                      /\ \E lo \in AnchorDays :
                            r["volume"] = SumOf(GroupFrom(s, DateOf(r["time"]), lo), "volume")

\* three 2-day bars are asked for on Jan 3 2025, the source holding the bars of
\* Dec 30 and 31 2024 and of Jan 2 and 3 2025: one bar is returned
C28_OlderHistoryLeftOut ==
    /\ MultiDayReturned
    /\ call.a.bar_count = 3 /\ CallPeriod.num = 2
    /\ CallTarget = At(2, 0, 0, 0)
    /\ { DateOf(HeldBars("A")[i]["time"]) : i \in 1 .. Len(HeldBars("A")) } = {-2, -1, 1, 2}
    /\ Len(RowsFor("A")) = 1

----------------------------------------------------------------------------
(* C29 *)

\* C29: generate_signal returns at most one signal, and a sell signal has a
\* volume that is a positive multiple of 100 and at most the available volume
\* of the position (can_use_volume, else volume), whatever the ratio.
C29_SellWithinAvailable ==
    ReturnedBy("generate_signal") =>
        /\ Len(result.ret) <= 1
        /\ \A i \in 1 .. Len(result.ret) :
              result.ret[i].action = "sell" =>
                  /\ result.ret[i].volume > 0
                  /\ result.ret[i].volume % 100 = 0
                  /\ result.ret[i].volume <= AvailableVolume(call.a.position)

----------------------------------------------------------------------------
(* C30 *)

\* the places of the finished signals among the signals emitted
FinishedAt == { i \in 1 .. Len(mgr.emitted) : mgr.emitted[i][1] = "finished" }

\* C30: for one start() of a StockListUpdateManager, whatever the order of the
\* worker's messages, its exit, the timer and stop(): the finished signal is
\* emitted at most once, no signal follows it, and no signal is emitted after
\* stop() has been called from outside.
C30_FinishedOnceAndLast ==
    mgr.state = "started" =>
        /\ Cardinality(FinishedAt) <= 1
        /\ \A i \in FinishedAt : i = Len(mgr.emitted)
        /\ mgr.stopped => Len(mgr.emitted) = mgr.stoppedAt

\* the worker has ended with an exit code other than 0 after its finished
\* message, check_queue has forwarded two progress messages and the finished one
C30_FinishedAfterProgress ==
    /\ mgr.state = "started"
    /\ mgr.worker = "exited 1"
    /\ mgr.sent = ProgressMessages + 1
    /\ Len(mgr.emitted) >= 3
    /\ FinishedAt = {Len(mgr.emitted)}
    /\ mgr.at = "idle"

====
